---- MODULE Spec2Model ----
(***************************************************************************)
(* Model of src/Classifier/reberta_med_classification.py:                  *)
(* ClassificateurMedicamentsAlgerien, the field extractor for OCR text of  *)
(* Algerian medicine labels.                                               *)
(*                                                                         *)
(* A text is a sequence of characters, each character a one-character      *)
(* string.  The characters outside ASCII that the patterns of the program  *)
(* name are written as named characters (EAigu and the like).  Python's    *)
(* regular expressions are modelled by what re does: a pattern is a tree   *)
(* of nodes and ReMatch is the backtracking matcher, so that the first     *)
(* match, greedy and lazy repetition and the captured groups are those of  *)
(* re.search / re.findall.                                                 *)
(***************************************************************************)
EXTENDS Integers, Sequences, FiniteSets, TLC

(***************************************************************************)
(* Characters                                                              *)
(***************************************************************************)

\* A string literal as a sequence of one-character strings.
W(str) == [k \in 1..Len(str) |-> SubSeq(str, k, k)]

\* The characters outside ASCII that occur in the patterns and the lexicons.
EAigu == "e-aigu"
EGrave == "e-grave"
ECirc == "e-circ"
AGrave == "a-grave"
CCedil == "c-cedille"
ICirc == "i-circ"
Degre == "degre"
Tiret == "tiret-demi-cadratin"
Micro == "micro"

UpperAZ == W("ABCDEFGHIJKLMNOPQRSTUVWXYZ")
LowerAZ == W("abcdefghijklmnopqrstuvwxyz")
LowerAcc == <<EAigu, EGrave, ECirc, AGrave, CCedil, ICirc>>
UpperAcc == <<"E-AIGU", "E-GRAVE", "E-CIRC", "A-GRAVE", "C-CEDILLE", "I-CIRC">>
LowerAll == LowerAZ \o LowerAcc
UpperAll == UpperAZ \o UpperAcc

Range(f) == {f[k] : k \in DOMAIN f}

AZ == Range(UpperAZ)
az == Range(LowerAZ)
Digits == Range(W("0123456789"))
\* str.isspace / the class \s, within the characters of the model
Whitespace == {" ", "\n", "\t", "\r"}
\* the class \w (Unicode): letters, digits and the underscore
WordChars == Range(LowerAll) \cup Range(UpperAll) \cup Digits \cup {"_", Micro}

\* str.upper and str.lower on one character
UpperMap == [c \in Range(LowerAll) |->
               UpperAll[CHOOSE k \in DOMAIN LowerAll : LowerAll[k] = c]]
LowerMap == [c \in Range(UpperAll) |->
               LowerAll[CHOOSE k \in DOMAIN UpperAll : UpperAll[k] = c]]
UpperChar(c) == IF c \in DOMAIN UpperMap THEN UpperMap[c] ELSE c
LowerChar(c) == IF c \in DOMAIN LowerMap THEN LowerMap[c] ELSE c

\* str.upper, str.lower
upper(s) == [k \in DOMAIN s |-> UpperChar(s[k])]
lower(s) == [k \in DOMAIN s |-> LowerChar(s[k])]

\* str.strip: the whitespace at both ends removed
RECURSIVE lstrip(_)
lstrip(s) == IF Len(s) > 0 /\ s[1] \in Whitespace THEN lstrip(Tail(s)) ELSE s
RECURSIVE rstrip(_)
rstrip(s) == IF Len(s) > 0 /\ s[Len(s)] \in Whitespace
             THEN rstrip(SubSeq(s, 1, Len(s) - 1)) ELSE s
strip(s) == rstrip(lstrip(s))

\* the test "sub in s" on strings
Contains(s, sub) ==
    \E p \in 1..(Len(s) - Len(sub) + 1) : SubSeq(s, p, p + Len(sub) - 1) = sub

(***************************************************************************)
(* Regular expressions (module re)                                         *)
(***************************************************************************)

\* no upper limit of a repetition
Inf == -1

Set(S) == [t |-> "set", s |-> S]
Ch(c) == [t |-> "set", s |-> {c}]
Cat(rs) == [t |-> "cat", rs |-> rs]
Lit(s) == [t |-> "lit", s |-> s]
Alt(rs) == [t |-> "alt", rs |-> rs]
Rep(r, lo, hi, lazy) == [t |-> "rep", r |-> r, lo |-> lo, hi |-> hi, lazy |-> lazy]
Star(r) == Rep(r, 0, Inf, FALSE)
Plus(r) == Rep(r, 1, Inf, FALSE)
PlusLazy(r) == Rep(r, 1, Inf, TRUE)
Opt(r) == Rep(r, 0, 1, FALSE)
Grp(n, r) == [t |-> "grp", n |-> n, r |-> r]
WordB == [t |-> "wb"]
EndS == [t |-> "end"]

\* \s, \d
S == Set(Whitespace)
D == Set(Digits)

\* the result of a failed match, and the groups before any is set
Fail == <<>>
NoGroups == [n \in 1..2 |-> <<0, 0>>]

\* a character against a class, under re.IGNORECASE when ic
InClass(c, cls, ic) ==
    c \in cls \/ (ic /\ (UpperChar(c) \in cls \/ LowerChar(c) \in cls))

IsWordAt(s, i) == i >= 1 /\ i <= Len(s) /\ s[i] \in WordChars

\* the literal w at position i of s
LitAt(s, ic, w, i) ==
    /\ i + Len(w) - 1 <= Len(s)
    /\ \A k \in DOMAIN w : InClass(s[i + k - 1], {w[k]}, ic)

\* how many characters of the class follow one another from position i on,
\* counted up to hi
Run(s, ic, cls, i, hi) ==
    LET last == IF hi = Inf \/ i + hi > Len(s) THEN Len(s) + 1 ELSE i + hi
        stops == {j \in i..last : j = last \/ ~InClass(s[j], cls, ic)}
    IN (CHOOSE j \in stops : \A other \in stops : j <= other) - i

\* what a repetition settles on: essais pairs a number of repetitions with the
\* result of the rest of the pattern after them; a greedy repetition takes the
\* largest number that lets the rest match, a lazy one the smallest
Settle(lazy, essais) ==
    LET good == {e \in essais : e[2] # Fail}
    IN IF good = {} THEN Fail
       ELSE (CHOOSE e \in good :
               \A other \in good : IF lazy THEN e[1] <= other[1] ELSE e[1] >= other[1])[2]

\* The backtracking matcher: the nodes rs, in order, matched against s from
\* position i on; the first way to match them all is the result, <<end, groups>>.
RECURSIVE ReMatch(_, _, _, _, _)
ReMatch(s, ic, rs, i, groups) ==
    IF Len(rs) = 0 THEN <<i, groups>>
    ELSE LET r == Head(rs)
             rest == Tail(rs)
         IN CASE r.t = "set" ->
                   IF i <= Len(s) /\ InClass(s[i], r.s, ic)
                   THEN ReMatch(s, ic, rest, i + 1, groups) ELSE Fail
              [] r.t = "lit" ->
                   IF LitAt(s, ic, r.s, i)
                   THEN ReMatch(s, ic, rest, i + Len(r.s), groups) ELSE Fail
              [] r.t = "cat" -> ReMatch(s, ic, r.rs \o rest, i, groups)
              [] r.t = "alt" ->
                   IF Len(r.rs) = 0 THEN Fail
                   ELSE LET first == ReMatch(s, ic, <<Head(r.rs)>> \o rest, i, groups)
                        IN IF first # Fail THEN first
                           ELSE ReMatch(s, ic, <<Alt(Tail(r.rs))>> \o rest, i, groups)
              [] r.t = "rep" /\ r.r.t = "set" ->
                   Settle(r.lazy,
                          {<<k, ReMatch(s, ic, rest, i + k, groups)>> :
                             k \in r.lo..Run(s, ic, r.r.s, i, r.hi)})
              [] r.t = "rep" /\ r.r.t # "set" ->
                   LET again == IF r.hi = 0 THEN Fail
                                ELSE ReMatch(s, ic,
                                       <<r.r, Rep(r.r, IF r.lo > 0 THEN r.lo - 1 ELSE 0,
                                                  IF r.hi = Inf THEN Inf ELSE r.hi - 1,
                                                  r.lazy)>> \o rest, i, groups)
                       stop == IF r.lo > 0 THEN Fail ELSE ReMatch(s, ic, rest, i, groups)
                   IN IF r.lazy
                      THEN (IF stop # Fail THEN stop ELSE again)
                      ELSE (IF again # Fail THEN again ELSE stop)
              [] r.t = "grp" ->
                   ReMatch(s, ic, <<r.r, [t |-> "close", n |-> r.n, from |-> i]>> \o rest,
                           i, groups)
              [] r.t = "close" ->
                   ReMatch(s, ic, rest, i, [groups EXCEPT ![r.n] = <<r.from, i>>])
              [] r.t = "wb" ->
                   IF IsWordAt(s, i - 1) # IsWordAt(s, i)
                   THEN ReMatch(s, ic, rest, i, groups) ELSE Fail
              [] r.t = "end" ->
                   IF i = Len(s) + 1 \/ (i = Len(s) /\ s[i] = "\n")
                   THEN ReMatch(s, ic, rest, i, groups) ELSE Fail

\* the result of a search that found nothing (None)
NoMatch == [start |-> 0, end |-> 0, groups |-> NoGroups]

\* the leftmost of the attempts that matched, as a match object; essais pairs
\* each start position with the matcher's result there
PremierEssai(essais) ==
    LET good == {e \in essais : e[2] # Fail}
    IN IF good = {} THEN NoMatch
       ELSE LET e == CHOOSE e \in good : \A other \in good : e[1] <= other[1]
            IN [start |-> e[1], end |-> e[2][1], groups |-> e[2][2]]

\* re.search from position p on: the leftmost match
SearchFrom(s, ic, r, p) ==
    PremierEssai({<<q, ReMatch(s, ic, <<r>>, q, NoGroups)>> : q \in p..(Len(s) + 1)})

search(r, s, ic) == SearchFrom(s, ic, r, 1)
Found(m) == m.start > 0

\* Python's None: a value that no string equals
None == <<"None">>

\* Match.group(n): None for a group that took no part in the match
group(s, m, n) ==
    IF m.groups[n] = <<0, 0>> THEN None
    ELSE SubSeq(s, m.groups[n][1], m.groups[n][2] - 1)

\* re.finditer from position p on: the successive matches, none overlapping
RECURSIVE FindIterFrom(_, _, _, _)
MatchesFrom(s, ic, r, m) ==
    IF ~Found(m) THEN <<>>
    ELSE <<m>> \o FindIterFrom(s, ic, r, IF m.end > m.start THEN m.end ELSE m.end + 1)

FindIterFrom(s, ic, r, p) == MatchesFrom(s, ic, r, SearchFrom(s, ic, r, p))

\* re.findall for a pattern with one group: group 1 of the successive matches
Groups1(s, ms) == [k \in DOMAIN ms |-> group(s, ms[k], 1)]

findall(r, s, ic) == Groups1(s, FindIterFrom(s, ic, r, 1))

\* re.sub(r, repl, s) for a pattern that matches no empty string
RECURSIVE SubFrom(_, _, _, _)
Replaced(s, r, repl, p, m) ==
    IF ~Found(m) THEN SubSeq(s, p, Len(s))
    ELSE SubSeq(s, p, m.start - 1) \o repl \o SubFrom(s, r, repl, m.end)

SubFrom(s, r, repl, p) == Replaced(s, r, repl, p, SearchFrom(s, FALSE, r, p))

sub(r, repl, s) == SubFrom(s, r, repl, 1)

(***************************************************************************)
(* ClassificateurMedicamentsAlgerien                                       *)
(***************************************************************************)

\* the truth value of a string or None ("if x:", "if not x:")
Truthy(x) == x \notin {None, <<>>}

\* self.entreprises_algeriennes
entreprises_algeriennes ==
    {W("SAIDAL"), W("BIOCARE"), W("BIOPHARM"), W("HIKMA"), W("PFIZER"),
     W("SANOFI"), W("BAYER"), W("NOVARTIS"), W("GSK"), W("GLAXOSMITHKLINE"),
     W("BIOGALENIC"), W("NADPHARMA"), W("NADPHARMAGIC"), W("VIGNETTE")}

\* self.formes_pharmaceutiques
formes_pharmaceutiques ==
    {W("comprim") \o <<EAigu, "s">>, W("comprim") \o <<EAigu>>,
     W("comprim") \o <<EAigu, "e">>, <<"g", EAigu>> \o W("lules"),
     <<"g", EAigu>> \o W("lule"), W("sirop"), W("solution"), W("suspension"),
     W("cr") \o <<EGrave>> \o W("me"), W("pommade"), W("gel"), W("injection"),
     W("suppositoires"), W("suppositoire"), W("sachets"), W("sachet"),
     W("unidoses"), W("quadrispersible"), W("collyre"), W("gouttes")}

\* self.mots_cles_principes
mots_cles_principes ==
    {W("sodique"), W("chlorhydrate"), W("sulfate"), W("phosphate"), W("base"),
     W("acide"), W("sel"), W("ester"), W("sodium"), W("potassium")}

\* a list in the opposite order
Renverser(s) == [k \in DOMAIN s |-> s[Len(s) + 1 - k]]

\* The entries of self.entreprises_algeriennes in the order the set literal
\* lists them: one of the orders "for entreprise in
\* self.entreprises_algeriennes" can go through them (a set of str is
\* iterated in an order that changes with the hash seed of the interpreter).
entreprises_dans_l_ordre ==
    << W("SAIDAL"), W("BIOCARE"), W("BIOPHARM"), W("HIKMA"), W("PFIZER"),
       W("SANOFI"), W("BAYER"), W("NOVARTIS"), W("GSK"), W("GLAXOSMITHKLINE"),
       W("BIOGALENIC"), W("NADPHARMA"), W("NADPHARMAGIC"), W("VIGNETTE") >>

\* The entries of self.formes_pharmaceutiques in the order the set literal
\* lists them ('pommade', written twice, is one entry).
formes_dans_l_ordre ==
    << W("comprim") \o <<EAigu, "s">>, W("comprim") \o <<EAigu>>,
       W("comprim") \o <<EAigu, "e">>, <<"g", EAigu>> \o W("lules"),
       <<"g", EAigu>> \o W("lule"), W("sirop"), W("solution"), W("suspension"),
       W("cr") \o <<EGrave>> \o W("me"), W("pommade"), W("gel"), W("injection"),
       W("suppositoires"), W("suppositoire"), W("sachets"), W("sachet"),
       W("unidoses"), W("quadrispersible"), W("collyre"), W("gouttes") >>

\* The attributes __init__ gives the classifier.  The two sets that the
\* program iterates are held as the list their iteration yields.
InstanceDansLOrdre ==
    [entreprises_algeriennes |-> entreprises_dans_l_ordre,
     formes_pharmaceutiques |-> formes_dans_l_ordre,
     mots_cles_principes |-> mots_cles_principes]

InstanceRenversee ==
    [entreprises_algeriennes |-> Renverser(entreprises_dans_l_ordre),
     formes_pharmaceutiques |-> Renverser(formes_dans_l_ordre),
     mots_cles_principes |-> mots_cles_principes]

\* the classifiers of two runs of the interpreter
Instances == {InstanceDansLOrdre, InstanceRenversee}

\* the list ['VIGNETTE', 'PRIX', 'LOT', 'FAB', 'EXP', 'PER'] of strategies 3 to 5
mots_exclus == {W("VIGNETTE"), W("PRIX"), W("LOT"), W("FAB"), W("EXP"), W("PER")}

\* the keys of entites, all empty
entites_vides ==
    [nom_medicament |-> <<>>, principe_actif |-> <<>>, dosage |-> <<>>,
     forme_pharmaceutique |-> <<>>, entreprise |-> <<>>, numero_lot |-> <<>>,
     date_fabrication |-> <<>>, date_peremption |-> <<>>, prix |-> <<>>,
     numero_enregistrement |-> <<>>]

\* normaliser_texte with the fault of collapsing the whitespace two characters
\* at a time (as texte.replace('  ', ' ') does)
normaliser_texte_par_paires(t) == strip(sub(Cat(<<S, S>>), <<" ">>, t))

\* normaliser_texte with the fault of a forgotten strip()
normaliser_texte_sans_strip(t) == sub(Plus(S), <<" ">>, t)

\* normaliser_texte
normaliser_texte(t) == strip(sub(Plus(S), <<" ">>, t))

\* pieces that several patterns share
\* [-\s]
TiretOuEspace == Set({"-"} \cup Whitespace)
\* \d+(?:\.\d+)?
Nombre == Cat(<<Plus(D), Opt(Cat(<<Ch("."), Plus(D)>>))>>)
\* (?:\s+[A-Z\.&LP]+)*
SuiteMajuscules == Star(Cat(<<Plus(S), Plus(Set(AZ \cup {".", "&"}))>>))
\* [a-z{e-aigu}{e-grave}{e-circ}{a-grave}{c-cedille}]
Minuscule == Set(az \cup {EAigu, EGrave, ECirc, AGrave, CCedil})
\* [A-Za-z{e-aigu}{e-grave}{e-circ}{a-grave}{c-cedille}]
Lettre == Set(AZ \cup az \cup {EAigu, EGrave, ECirc, AGrave, CCedil})
\* (?:mg|g|%|ml)
UniteDosage == Alt(<<Lit(W("mg")), Ch("g"), Ch("%"), Lit(W("ml"))>>)

(************************** ENTREPRISE *************************************)

\* the four patterns tried for one entry of the registry
modeles_entreprise(entreprise) ==
    << Cat(<<WordB, Lit(entreprise), WordB>>),
       Cat(<<Lit(W("VIGNETTE")), Star(TiretOuEspace), Lit(entreprise)>>),
       Cat(<<Lit(entreprise), Star(TiretOuEspace), Lit(W("VIGNETTE"))>>),
       Cat(<<WordB, Lit(entreprise), Plus(TiretOuEspace), Set(AZ)>>) >>

\* "for modele in modeles: if re.search(modele, texte_maj)"
EntrepriseCorrespond(entreprise, texte_maj) ==
    \E k \in 1..4 : Found(search(modeles_entreprise(entreprise)[k], texte_maj, FALSE))

\* The values entreprise_trouvee can end with: the loop stops at the first
\* entry of the set that matches, and a set of str is iterated in an order
\* that changes from one run of the interpreter to the next.
EntreprisesPossibles(t) ==
    LET texte_maj == upper(t)
        trouvees == {e \in entreprises_algeriennes : EntrepriseCorrespond(e, texte_maj)}
    IN IF trouvees = {} THEN {None} ELSE trouvees

\* BoucleEntreprises with the fault of a forgotten "if entreprise_trouvee:
\* break": every entry is examined and every entry that matches is appended
RECURSIVE BoucleEntreprisesSansBreak(_, _, _)
BoucleEntreprisesSansBreak(ordre, texte_maj, k) ==
    IF k > Len(ordre)
    THEN [entreprise_trouvee |-> None, entreprise |-> <<>>, examinees |-> Len(ordre)]
    ELSE LET suite == BoucleEntreprisesSansBreak(ordre, texte_maj, k + 1)
         IN IF EntrepriseCorrespond(ordre[k], texte_maj)
            THEN [entreprise_trouvee |-> IF suite.entreprise_trouvee = None THEN ordre[k]
                                         ELSE suite.entreprise_trouvee,
                  entreprise |-> <<ordre[k]>> \o suite.entreprise,
                  examinees |-> Len(ordre)]
            ELSE suite

\* "for entreprise in self.entreprises_algeriennes: ... if entreprise_trouvee:
\* break", from the k-th entry of the iteration on: entreprise_trouvee,
\* entites['entreprise'] and how many entries the loop went through
RECURSIVE BoucleEntreprises(_, _, _)
BoucleEntreprises(ordre, texte_maj, k) ==
    IF k > Len(ordre)
    THEN [entreprise_trouvee |-> None, entreprise |-> <<>>, examinees |-> Len(ordre)]
    ELSE IF EntrepriseCorrespond(ordre[k], texte_maj)
    THEN [entreprise_trouvee |-> ordre[k], entreprise |-> <<ordre[k]>>, examinees |-> k]
    ELSE BoucleEntreprises(ordre, texte_maj, k + 1)

(************************** NOM DU MEDICAMENT ******************************)

\* strategy 1: ENTREPRISE-MEDICAMENT
modele_nom_1(entreprise) ==
    Cat(<<Lit(entreprise), Plus(TiretOuEspace),
          Grp(1, Cat(<<Set(AZ), PlusLazy(Set(AZ \cup Whitespace \cup {"&", "."}))>>)),
          Alt(<<Cat(<<Plus(S), Nombre, Alt(<<Lit(W("mg")), Ch("g"), Ch("%")>>)>>),
                Cat(<<Plus(S), Ch("-"), Plus(S)>>),
                Cat(<<Plus(S), Ch("L"), Opt(Ch(".")), Ch("P"), Opt(Ch("."))>>)>>)>>)

nom_strategie_1(t, entreprise_trouvee) ==
    IF Truthy(entreprise_trouvee)
    THEN LET correspondance == search(modele_nom_1(entreprise_trouvee), t, TRUE)
         IN IF Found(correspondance) THEN strip(group(t, correspondance, 1)) ELSE None
    ELSE None

\* strategy 2: the upper-case word before the dosage
modele_nom_2 ==
    Cat(<<WordB, Grp(1, Cat(<<Set(AZ), Plus(Set(AZ)), SuiteMajuscules>>)),
          Plus(S), Nombre, Alt(<<Lit(W("mg")), Ch("g"), Ch("%")>>)>>)

nom_strategie_2(t) ==
    LET correspondance == search(modele_nom_2, t, FALSE)
    IN IF Found(correspondance)
       THEN LET nom_potentiel == strip(group(t, correspondance, 1))
            IN IF upper(nom_potentiel) \notin entreprises_algeriennes
               THEN nom_potentiel ELSE None
       ELSE None

\* the test of strategies 3, 4 and 5 on a candidate
NomAccepte(nom_potentiel) ==
    /\ upper(nom_potentiel) \notin entreprises_algeriennes
    /\ upper(nom_potentiel) \notin mots_exclus

\* strategy 3: "dosage MEDICAMENT"
modele_nom_3 ==
    Cat(<<Nombre, Star(S), UniteDosage, Plus(S),
          Grp(1, Cat(<<Set(AZ), Plus(Set(AZ)), SuiteMajuscules>>))>>)

nom_strategie_3(t) ==
    LET correspondance == search(modele_nom_3, t, FALSE)
    IN IF Found(correspondance)
       THEN LET nom_potentiel == strip(group(t, correspondance, 1))
            IN IF NomAccepte(nom_potentiel) THEN nom_potentiel ELSE None
       ELSE None

\* strategy 4: an upper-case word at the end, after a dash
modele_nom_4 ==
    Cat(<<Ch("-"), Plus(S),
          Grp(1, Cat(<<Rep(Set(AZ), 3, Inf, FALSE), SuiteMajuscules>>)),
          Star(S), EndS>>)

nom_strategie_4(t) ==
    LET correspondance == search(modele_nom_4, t, FALSE)
    IN IF Found(correspondance)
       THEN LET nom_potentiel == strip(group(t, correspondance, 1))
            IN IF NomAccepte(nom_potentiel) THEN nom_potentiel ELSE None
       ELSE None

\* strategy 5: the first upper-case word that is no company
modele_nom_5 ==
    Cat(<<WordB, Grp(1, Cat(<<Rep(Set(AZ), 3, Inf, FALSE), SuiteMajuscules>>)), WordB>>)

RECURSIVE PremierAccepte(_)
PremierAccepte(correspondances) ==
    IF Len(correspondances) = 0 THEN None
    ELSE IF NomAccepte(Head(correspondances)) THEN Head(correspondances)
    ELSE PremierAccepte(Tail(correspondances))

nom_strategie_5(t) == PremierAccepte(findall(modele_nom_5, t, FALSE))

\* the cascade "if not nom_medicament:" over the five strategies
nom_strategie(k, t, entreprise_trouvee) ==
    CASE k = 1 -> nom_strategie_1(t, entreprise_trouvee)
      [] k = 2 -> nom_strategie_2(t)
      [] k = 3 -> nom_strategie_3(t)
      [] k = 4 -> nom_strategie_4(t)
      [] k = 5 -> nom_strategie_5(t)

\* NomDepuis with the fault of a forgotten "if not nom_medicament:": every
\* strategy runs, and a later one that succeeds replaces the name
RECURSIVE NomDepuisSansTest(_, _, _)
NomDepuisSansTest(k, t, entreprise_trouvee) ==
    IF k > 5 THEN None
    ELSE LET suite == NomDepuisSansTest(k + 1, t, entreprise_trouvee)
         IN IF Truthy(suite) THEN suite ELSE nom_strategie(k, t, entreprise_trouvee)

\* the strategies from the k-th on: each one under "if not nom_medicament:"
\* (the first under "if entreprise_trouvee:")
RECURSIVE NomDepuis(_, _, _)
NomDepuis(k, t, entreprise_trouvee) ==
    IF k > 5 THEN None
    ELSE LET nom == nom_strategie(k, t, entreprise_trouvee)
         IN IF Truthy(nom) THEN nom ELSE NomDepuis(k + 1, t, entreprise_trouvee)

ResoudreNom(t, entreprise_trouvee) == NomDepuis(1, t, entreprise_trouvee)

\* ListeNom with the fault of a forgotten "if nom_medicament:"
ListeNomSansTest(nom_medicament) == <<nom_medicament>>

\* "if nom_medicament: entites['nom_medicament'].append(nom_medicament)"
ListeNom(nom_medicament) ==
    IF Truthy(nom_medicament) THEN <<nom_medicament>> ELSE <<>>

(************************** PRINCIPE ACTIF *********************************)

\* model 1: a mixed-case phrase between two dashes
modele_principe ==
    Cat(<<Ch("-"), Plus(S),
          Grp(1, Cat(<<Set(AZ), Plus(Minuscule),
                       Star(Cat(<<Plus(S), Opt(Set(AZ)), Plus(Minuscule)>>))>>)),
          Plus(S), Ch("-")>>)

\* "if nom_medicament and principe.upper() != nom_medicament.upper()"
PrincipeDiffereDuNom(principe, nom_medicament) ==
    Truthy(nom_medicament) /\ upper(principe) # upper(nom_medicament)

RECURSIVE principe_modele_1_boucle(_, _)
principe_modele_1_boucle(correspondances_principe, nom_medicament) ==
    IF Len(correspondances_principe) = 0 THEN <<>>
    ELSE (IF PrincipeDiffereDuNom(Head(correspondances_principe), nom_medicament)
          THEN <<strip(Head(correspondances_principe))>> ELSE <<>>)
         \o principe_modele_1_boucle(Tail(correspondances_principe), nom_medicament)

principe_modele_1(t, nom_medicament) ==
    principe_modele_1_boucle(findall(modele_principe, t, FALSE), nom_medicament)

\* model 2: dosage, dash, words that end with a marker
modele_principe_2 ==
    Cat(<<Nombre, Star(S), UniteDosage, Star(S), Set({Tiret, "-"}), Star(S),
          Grp(1, Cat(<<Plus(Set(az \cup {EAigu, EGrave, ECirc, AGrave, CCedil}
                                   \cup Whitespace)),
                       Alt(<<Lit(W("sodique")), Lit(W("chlorhydrate")), Lit(W("sulfate")),
                             Lit(W("phosphate")), Lit(W("base")), Lit(W("acide"))>>)>>))>>)

principe_modele_2(t) ==
    LET correspondance == search(modele_principe_2, t, TRUE)
    IN IF Found(correspondance) THEN <<strip(group(t, correspondance, 1))>> ELSE <<>>

\* model 3: "dosage PRINCIPE"
modele_principe_3 ==
    Cat(<<Nombre, Star(S), UniteDosage, Plus(S), Grp(1, Cat(<<Set(AZ), Plus(Set(AZ))>>))>>)

\* the test of model 3 on a candidate
PrincipeAccepte(principe_potentiel, nom_medicament) ==
    /\ upper(principe_potentiel) \notin entreprises_algeriennes
    /\ (~Truthy(nom_medicament) \/ principe_potentiel # nom_medicament)

principe_modele_3(t, nom_medicament) ==
    LET correspondance == search(modele_principe_3, t, FALSE)
    IN IF Found(correspondance)
       THEN LET principe_potentiel == strip(group(t, correspondance, 1))
            IN IF PrincipeAccepte(principe_potentiel, nom_medicament)
               THEN <<principe_potentiel>> ELSE <<>>
       ELSE <<>>

\* model 4: a mixed-case word that contains a marker
modele_principe_4 ==
    Cat(<<WordB, Grp(1, Cat(<<Set(AZ), Plus(Minuscule),
                              Opt(Cat(<<Plus(S), Plus(Minuscule)>>))>>)), WordB>>)

RECURSIVE PremierAvecMotCle(_)
PremierAvecMotCle(correspondances) ==
    IF Len(correspondances) = 0 THEN <<>>
    ELSE IF \E mot \in mots_cles_principes : Contains(lower(Head(correspondances)), mot)
    THEN <<Head(correspondances)>>
    ELSE PremierAvecMotCle(Tail(correspondances))

principe_modele_4(t) == PremierAvecMotCle(findall(modele_principe_4, t, FALSE))

\* the cascade "if not entites['principe_actif']:" over the four models
principe_modele(k, t, nom_medicament) ==
    CASE k = 1 -> principe_modele_1(t, nom_medicament)
      [] k = 2 -> principe_modele_2(t)
      [] k = 3 -> principe_modele_3(t, nom_medicament)
      [] k = 4 -> principe_modele_4(t)

\* the models from the k-th on: each one after the first under "if not
\* entites['principe_actif']:"
RECURSIVE PrincipeDepuis(_, _, _)
PrincipeDepuis(k, t, nom_medicament) ==
    IF k > 4 THEN <<>>
    ELSE LET principes == principe_modele(k, t, nom_medicament)
         IN IF Len(principes) > 0 THEN principes
            ELSE PrincipeDepuis(k + 1, t, nom_medicament)

ResoudrePrincipe(t, nom_medicament) == PrincipeDepuis(1, t, nom_medicament)

(************************** DOSAGE *****************************************)

modeles_dosage ==
    << Cat(<<WordB, Grp(1, Cat(<<Nombre, Star(S), Lit(W("mg")),
                                 Opt(Cat(<<Ch("/"), Nombre, Lit(W("mg"))>>))>>)), WordB>>),
       Cat(<<WordB, Grp(1, Cat(<<Nombre, Star(S), Ch("g")>>)), WordB>>),
       Cat(<<WordB, Grp(1, Cat(<<Nombre, Star(S), Lit(W("ml"))>>)), WordB>>),
       Cat(<<WordB, Grp(1, Cat(<<Nombre, Star(S), Ch("%")>>)), WordB>>),
       Cat(<<WordB, Grp(1, Cat(<<Nombre, Star(S), Lit(W("mcg"))>>)), WordB>>),
       Cat(<<WordB, Grp(1, Cat(<<Nombre, Star(S), Ch(Micro), Ch("g")>>)), WordB>>) >>

\* re.sub(r'\s+', '', correspondance)
SansEspaces(s) == sub(Plus(S), <<>>, s)

\* AjouterDosage with the fault of a forgotten "not in" test
AjouterDosageSansTest(dosage, correspondance_normalisee) ==
    Append(dosage, correspondance_normalisee)

\* "if correspondance_normalisee not in entites['dosage']: ...append(...)"
AjouterDosage(dosage, correspondance_normalisee) ==
    IF correspondance_normalisee \in Range(dosage) THEN dosage
    ELSE Append(dosage, correspondance_normalisee)

\* the inner loop, over the matches of one pattern
RECURSIVE AjouterCorrespondances(_, _)
AjouterCorrespondances(dosage, correspondances) ==
    IF Len(correspondances) = 0 THEN dosage
    ELSE AjouterCorrespondances(AjouterDosage(dosage, SansEspaces(Head(correspondances))),
                                Tail(correspondances))

\* the outer loop, over the patterns from the k-th on
RECURSIVE ExtraireDosageDepuis(_, _, _)
ExtraireDosageDepuis(t, k, dosage) ==
    IF k > Len(modeles_dosage) THEN dosage
    ELSE ExtraireDosageDepuis(t, k + 1,
             AjouterCorrespondances(dosage, findall(modeles_dosage[k], t, TRUE)))

ExtraireDosage(t) == ExtraireDosageDepuis(t, 1, <<>>)

(************************** FORME PHARMACEUTIQUE ***************************)

\* the patterns of modeles_forme; mot is the group that holds the form word
\* for the formatter, nombre the group that holds the count
modeles_forme ==
    << [modele |-> Cat(<<Grp(1, Plus(Lettre)), Star(S), Opt(Ch("/")), Star(S),
                         Set({"B", "b", "E", "e"}), Opt(Ch("/")), Grp(2, Plus(D))>>),
        nombre |-> 2, mot |-> 1],
       [modele |-> Cat(<<Set({"B", "b"}), Ch("o"), Set({"i", ICirc}), Lit(W("te")),
                         Plus(S), Lit(W("de")), Plus(S), Grp(1, Plus(D)), Plus(S),
                         Grp(2, Plus(Lettre))>>),
        nombre |-> 1, mot |-> 2],
       [modele |-> Cat(<<Grp(1, Plus(Lettre)), Plus(S), Lit(<<"b", "o", ICirc, "t", "e">>),
                         Plus(S), Lit(W("de")), Plus(S), Grp(2, Plus(D))>>),
        nombre |-> 2, mot |-> 1],
       [modele |-> Cat(<<Set({"B", "b", "E", "e"}), Opt(Ch("/")), Grp(1, Plus(D)),
                         Plus(S), Grp(2, Plus(Lettre))>>),
        nombre |-> 1, mot |-> 2] >>

\* the lambda of a pattern: f"{count} {form word in lower case}"
formateur(f, t, m) == group(t, m, f.nombre) \o <<" ">> \o lower(group(t, m, f.mot))

\* "any(f in mot_forme.lower() for f in self.formes_pharmaceutiques)"
ContientForme(mot_forme) ==
    \E f \in formes_pharmaceutiques : Contains(lower(mot_forme), f)

\* the loop over modeles_forme from the k-th on; every pattern has two groups,
\* so mot_forme is correspondance.group(2)
RECURSIVE forme_modeles(_, _)
forme_modeles(t, k) ==
    IF k > Len(modeles_forme) THEN <<>>
    ELSE LET correspondance == search(modeles_forme[k].modele, t, TRUE)
         IN IF Found(correspondance) /\ ContientForme(group(t, correspondance, 2))
            THEN <<formateur(modeles_forme[k], t, correspondance)>>
            ELSE forme_modeles(t, k + 1)

\* the stand-alone form words found in the text, in lower case
FormesAutonomes(t) ==
    {lower(group(t, search(Cat(<<WordB, Grp(1, Lit(forme)), WordB>>), t, TRUE), 1)) :
       forme \in {f \in formes_pharmaceutiques :
                    Found(search(Cat(<<WordB, Grp(1, Lit(f)), WordB>>), t, TRUE))}}

\* The values entites['forme_pharmaceutique'] can end with: the fallback loop
\* stops at the first entry of the set that matches, in the set's order.
FormesPossibles(t) ==
    LET f == forme_modeles(t, 1)
    IN IF Len(f) > 0 THEN {f}
       ELSE IF FormesAutonomes(t) = {} THEN {<<>>}
       ELSE {<<forme>> : forme \in FormesAutonomes(t)}

\* "for forme in self.formes_pharmaceutiques: ... if correspondance: ...
\* break", from the k-th entry of the iteration on
RECURSIVE FormeAutonome(_, _, _)
FormeAutonome(ordre, t, k) ==
    IF k > Len(ordre) THEN <<>>
    ELSE LET correspondance == search(Cat(<<WordB, Grp(1, Lit(ordre[k])), WordB>>), t, TRUE)
         IN IF Found(correspondance) THEN <<lower(group(t, correspondance, 1))>>
            ELSE FormeAutonome(ordre, t, k + 1)

\* entites['forme_pharmaceutique']: the patterns of modeles_forme, then "if
\* not entites['forme_pharmaceutique']:" the stand-alone form words
ExtraireForme(t, ordre) ==
    LET f == forme_modeles(t, 1)
    IN IF Len(f) > 0 THEN f ELSE FormeAutonome(ordre, t, 1)

(************************** LOT, DATES, PRIX, D.E **************************)

\* "for modele in modeles: correspondance = re.search(modele, texte,
\* re.IGNORECASE); if correspondance: ... break": group 1 of the first pattern
\* that matches, from the k-th on, as a list of at most one string
RECURSIVE PremiereCorrespondance(_, _, _)
PremiereCorrespondance(modeles, t, k) ==
    IF k > Len(modeles) THEN <<>>
    ELSE LET correspondance == search(modeles[k], t, TRUE)
         IN IF Found(correspondance) THEN <<group(t, correspondance, 1)>>
            ELSE PremiereCorrespondance(modeles, t, k + 1)

\* [A-Z0-9]
MajOuChiffre == Set(AZ \cup Digits)

modeles_lot ==
    << Cat(<<Lit(W("LOT")), Star(S), Star(Set({"n", Degre, ":"})), Star(S), Opt(Ch(":")),
             Star(S),
             Grp(1, Cat(<<Plus(MajOuChiffre),
                          Opt(Cat(<<Star(S), Opt(Ch("/")), Star(S), Plus(D)>>))>>))>>),
       Cat(<<Ch("N"), Opt(Ch(Degre)), Star(S), Lit(W("LOT")), Star(S), Opt(Ch(":")), Star(S),
             Grp(1, PlusLazy(Set(AZ \cup Digits \cup Whitespace \cup {"/"}))),
             Alt(<<Cat(<<Plus(S), Ch("-")>>), Cat(<<Plus(S), Lit(W("FAB"))>>),
                   Cat(<<Plus(S), Lit(W("PER"))>>), Cat(<<Plus(S), Lit(W("EXP"))>>),
                   EndS>>)>>),
       Cat(<<Lit(W("Lot")), Plus(S), Ch("n"), Opt(Ch(Degre)), Star(S), Opt(Ch(":")), Star(S),
             Grp(1, PlusLazy(Set(AZ \cup Digits \cup Whitespace))),
             Alt(<<Cat(<<Plus(S), Ch("-")>>), Cat(<<Plus(S), Lit(W("FAB"))>>), EndS>>)>>),
       Cat(<<Lit(W("LOT")), Plus(S), Grp(1, Plus(MajOuChiffre))>>) >>

\* "lot = correspondance.group(1).strip(); lot = re.sub(r'\s+', ' ', lot)"
ExtraireLot(t) ==
    LET c == PremiereCorrespondance(modeles_lot, t, 1)
    IN IF Len(c) = 0 THEN <<>> ELSE <<sub(Plus(S), <<" ">>, strip(c[1]))>>

\* \d{1,2}[-/]\d{2,4}
DateCourte == Cat(<<Rep(D, 1, 2, FALSE), Set({"-", "/"}), Rep(D, 2, 4, FALSE)>>)
\* \d{2}-\d{4}, \d{2}-\d{2}, \d{2}/\d{4}
DateMoisAnnee == Cat(<<Rep(D, 2, 2, FALSE), Ch("-"), Rep(D, 4, 4, FALSE)>>)
DateMoisAn == Cat(<<Rep(D, 2, 2, FALSE), Ch("-"), Rep(D, 2, 2, FALSE)>>)
DateBarre == Cat(<<Rep(D, 2, 2, FALSE), Ch("/"), Rep(D, 4, 4, FALSE)>>)

modeles_fab ==
    << Cat(<<Lit(W("FAB")), Opt(Cat(<<Lit(W("RICAT")), Opt(Ch("O"))>>)), Star(S),
             Opt(Set({"B", ":"})), Star(S), Opt(Ch(":")), Star(S), Grp(1, DateCourte)>>),
       Cat(<<Lit(W("Date")), Plus(S), Lit(W("Fab")), Opt(Lit(W("rication"))), Star(S),
             Opt(Ch(":")), Star(S), Grp(1, DateCourte)>>),
       Cat(<<Lit(W("Fab")), Star(S), Opt(Ch(":")), Star(S), Grp(1, DateCourte)>>),
       Cat(<<Lit(W("FAB")), Plus(S), Grp(1, DateMoisAnnee)>>),
       Cat(<<Lit(W("FAB")), Plus(S), Grp(1, DateMoisAn)>>),
       Cat(<<WordB, Lit(W("FAB")), Plus(S), Grp(1, DateBarre)>>) >>

ExtraireFab(t) == PremiereCorrespondance(modeles_fab, t, 1)

modeles_exp ==
    << Cat(<<Alt(<<Cat(<<Lit(W("PER")), Opt(Cat(<<Lit(W("IOD")), Set({"O", "I"})>>))>>),
                   Cat(<<Lit(W("EXP")), Opt(Lit(W("IRATION")))>>)>>),
             Star(S), Opt(Ch(":")), Star(S), Grp(1, DateCourte)>>),
       Cat(<<Lit(W("Date")), Plus(S), Lit(W("Exp")), Opt(Lit(W("iration"))), Star(S),
             Opt(Ch(":")), Star(S), Grp(1, DateCourte)>>),
       Cat(<<Lit(<<"P", EAigu>> \o W("remption")), Star(S), Opt(Ch(":")), Star(S),
             Grp(1, DateCourte)>>),
       Cat(<<Lit(W("EXP")), Plus(S), Grp(1, DateMoisAnnee)>>),
       Cat(<<Lit(W("EXP:")), Star(S), Grp(1, DateMoisAn)>>),
       Cat(<<WordB, Lit(W("EXP")), Plus(S), Grp(1, DateBarre)>>) >>

ExtraireExp(t) == PremiereCorrespondance(modeles_exp, t, 1)

\* [=:]
EgalOuDeuxPoints == Set({"=", ":"})

modeles_prix ==
    << Cat(<<Lit(W("TR")), Star(S), EgalOuDeuxPoints, Star(S), Grp(1, Nombre), Star(S),
             Lit(W("DA"))>>),
       Cat(<<Lit(W("T.R")), Star(S), EgalOuDeuxPoints, Star(S), Grp(1, Nombre), Star(S),
             Lit(W("DA"))>>),
       Cat(<<Lit(W("Tarif")), Plus(S), Lit(W("de")), Plus(S), Lit(<<"R", EAigu>>),
             Opt(Ch("f")), Opt(Lit(<<EAigu>> \o W("rence"))), Star(S), EgalOuDeuxPoints,
             Star(S), Grp(1, Nombre), Star(S), Lit(W("DA"))>>),
       Cat(<<Lit(W("PPA")), Star(S), Opt(Set({"=", ":", "+"})), Star(S), Grp(1, Nombre),
             Star(S), Lit(W("DA"))>>),
       Cat(<<Lit(W("Prix")), Star(S), Opt(Ch("+")), Star(S), Lit(W("SHP")), Star(S),
             EgalOuDeuxPoints, Star(S), Grp(1, Nombre)>>),
       Cat(<<Lit(W("PRIX")), Star(S), EgalOuDeuxPoints, Star(S), Grp(1, Nombre)>>),
       Cat(<<Lit(W("PRIX")), Plus(S), Grp(1, Nombre), Lit(W("DA"))>>),
       Cat(<<Lit(W("TR")), Plus(S), Grp(1, Nombre), Lit(W("DA"))>>),
       Cat(<<Lit(W("T.R")), Plus(S), Grp(1, Nombre), Lit(W("DA"))>>) >>

\* "entites['prix'].append(prix + ' DA')"
ExtrairePrix(t) ==
    LET c == PremiereCorrespondance(modeles_prix, t, 1)
    IN IF Len(c) = 0 THEN <<>> ELSE <<c[1] \o W(" DA")>>

\* [\d/A-Z\s]+?
CorpsDE == PlusLazy(Set(Digits \cup AZ \cup Whitespace \cup {"/"}))

modeles_de ==
    << Cat(<<Ch("D"), Opt(Ch(".")), Ch("E"), Star(S), Star(Set({"n", Degre})), Star(S),
             Opt(Ch(":")), Star(S), Grp(1, CorpsDE),
             Alt(<<Cat(<<Plus(S), Ch("-")>>), Cat(<<Plus(S), Lit(W("LOT"))>>),
                   Cat(<<Plus(S), Lit(W("FAB"))>>),
                   Cat(<<Plus(S), Rep(D, 4, 4, FALSE), Ch("/"), Rep(D, 4, 4, FALSE)>>),
                   EndS>>)>>),
       Cat(<<Ch("N"), Ch(Degre), Star(S), Ch("D"), Opt(Ch(".")), Ch("E"), Star(S),
             Opt(Ch(":")), Star(S), Grp(1, CorpsDE),
             Alt(<<Cat(<<Plus(S), Ch("-")>>), EndS>>)>>) >>

\* "num_de = correspondance.group(1).strip(); num_de = re.sub(r'\s+', ' ', num_de);
\*  num_de = re.sub(r'\s+\d{4}$', '', num_de)"
NettoyerDE(g) ==
    sub(Cat(<<Plus(S), Rep(D, 4, 4, FALSE), EndS>>), <<>>, sub(Plus(S), <<" ">>, strip(g)))

\* the loop over modeles_de from the k-th on: an empty num_de goes on to the
\* next pattern
RECURSIVE ExtraireDEDepuis(_, _)
ExtraireDEDepuis(t, k) ==
    IF k > Len(modeles_de) THEN <<>>
    ELSE LET correspondance == search(modeles_de[k], t, TRUE)
             num_de == NettoyerDE(group(t, correspondance, 1))
         IN IF Found(correspondance) /\ Len(num_de) > 0 THEN <<num_de>>
            ELSE ExtraireDEDepuis(t, k + 1)

ExtraireDE(t) == ExtraireDEDepuis(t, 1)

(************************** predire ****************************************)

\* Total with the fault of counting the keys, not the elements (len(entites))
TotalNombreDeCles(e) == Cardinality(DOMAIN e)

\* "total = sum(len(v) for v in entites.values())"
Total(e) ==
    Len(e.nom_medicament) + Len(e.principe_actif) + Len(e.dosage)
    + Len(e.forme_pharmaceutique) + Len(e.entreprise) + Len(e.numero_lot)
    + Len(e.date_fabrication) + Len(e.date_peremption) + Len(e.prix)
    + Len(e.numero_enregistrement)

(************************** one call, step by step *************************)

\* the local variables of a call of analyser_format_algerian(t) at its first
\* line
Locales(t) ==
    [texte_original |-> t, texte |-> t, entreprise_trouvee |-> None,
     nom_medicament |-> None, entites |-> entites_vides]

\* the sections of analyser_format_algerian, in order
Sections == <<"normaliser", "entreprise", "nom", "principe", "dosage", "forme", "lot">>

\* "nom_medicament = ..." and "if nom_medicament:
\* entites['nom_medicament'].append(nom_medicament)" on the local variables c
AffecterNom(c, nom) ==
    [c EXCEPT !.nom_medicament = nom, !.entites.nom_medicament = ListeNom(nom)]

\* one section of analyser_format_algerian on the local variables c of the
\* call, with the attributes self of the classifier
Etape(section, c, self) ==
    CASE section = "normaliser" -> [c EXCEPT !.texte = normaliser_texte(c.texte)]
      [] section = "entreprise" ->
           LET b == BoucleEntreprises(self.entreprises_algeriennes, upper(c.texte), 1)
           IN [c EXCEPT !.entreprise_trouvee = b.entreprise_trouvee,
                        !.entites.entreprise = b.entreprise]
      [] section = "nom" ->
           AffecterNom(c, ResoudreNom(c.texte, c.entreprise_trouvee))
      [] section = "principe" ->
           [c EXCEPT !.entites.principe_actif = ResoudrePrincipe(c.texte, c.nom_medicament)]
      [] section = "dosage" -> [c EXCEPT !.entites.dosage = ExtraireDosage(c.texte)]
      [] section = "forme" ->
           [c EXCEPT !.entites.forme_pharmaceutique =
                        ExtraireForme(c.texte, self.formes_pharmaceutiques)]
      [] section = "lot" ->
           [c EXCEPT !.entites.numero_lot = ExtraireLot(c.texte),
                     !.entites.date_fabrication = ExtraireFab(c.texte),
                     !.entites.date_peremption = ExtraireExp(c.texte),
                     !.entites.prix = ExtrairePrix(c.texte),
                     !.entites.numero_enregistrement = ExtraireDE(c.texte)]

\* the sections from the k-th on
RECURSIVE EtapesDepuis(_, _, _)
EtapesDepuis(k, c, self) ==
    IF k > Len(Sections) THEN c
    ELSE EtapesDepuis(k + 1, Etape(Sections[k], c, self), self)

\* analyser_format_algerian(texte): what a call returns
analyser_format_algerian(t, self) == EtapesDepuis(1, Locales(t), self).entites

(************************** enregistrer_dans_fichier ***********************)

\* The content of a file is a list of tokens: the brackets and the comma of
\* JSON, a JSON object (an entry of the log), and a byte that is no UTF-8.
\* A file is absent or holds a content.
Crochet == [t |-> "["]
CrochetFermant == [t |-> "]"]
Virgule == [t |-> ","]
OctetInvalide == [t |-> "octet invalide"]
FichierAbsent == [existe |-> FALSE, contenu |-> <<>>]
Fichier(contenu) == [existe |-> TRUE, contenu |-> contenu]

\* "entree = {'horodatage': datetime.now().isoformat(), 'donnees': entites}"
Entree(maintenant, e) == [t |-> "objet", horodatage |-> maintenant, donnees |-> e]

\* a Python list, as json.load returns it and json.dump takes it
Liste(elements) == [t |-> "liste", elements |-> elements]

\* the parser of json.load did not find a value
EchecAnalyse == [ok |-> FALSE, valeur |-> Liste(<<>>), suite |-> 0]

\* The parser of json.load: the value that starts at token i and the place
\* after it (AnalyserValeur), and the elements of a list after its "[" and
\* the elements acc (AnalyserElements).
RECURSIVE AnalyserValeur(_, _)
RECURSIVE AnalyserElements(_, _, _)
AnalyserValeur(contenu, i) ==
    IF i > Len(contenu) THEN EchecAnalyse
    ELSE IF contenu[i].t = "objet" THEN [ok |-> TRUE, valeur |-> contenu[i], suite |-> i + 1]
    ELSE IF contenu[i].t = Crochet.t
    THEN (IF i + 1 <= Len(contenu) /\ contenu[i + 1].t = CrochetFermant.t
          THEN [ok |-> TRUE, valeur |-> Liste(<<>>), suite |-> i + 2]
          ELSE AnalyserElements(contenu, i + 1, <<>>))
    ELSE EchecAnalyse

AnalyserElements(contenu, i, acc) ==
    LET v == AnalyserValeur(contenu, i)
    IN IF ~v.ok \/ v.suite > Len(contenu) THEN EchecAnalyse
       ELSE IF contenu[v.suite].t = Virgule.t
       THEN AnalyserElements(contenu, v.suite + 1, Append(acc, v.valeur))
       ELSE IF contenu[v.suite].t = CrochetFermant.t
       THEN [ok |-> TRUE, valeur |-> Liste(Append(acc, v.valeur)), suite |-> v.suite + 1]
       ELSE EchecAnalyse

\* "with open(nom_fichier, 'r', encoding='utf-8') as f: json.load(f)": the
\* whole file is decoded first (UnicodeDecodeError), then one value is
\* parsed, which must be all of the text (JSONDecodeError)
json_load(contenu) ==
    IF \E k \in DOMAIN contenu : contenu[k].t = OctetInvalide.t
    THEN [erreur |-> "UnicodeDecodeError", valeur |-> Liste(<<>>)]
    ELSE LET v == AnalyserValeur(contenu, 1)
         IN IF v.ok /\ v.suite = Len(contenu) + 1
            THEN [erreur |-> "aucune", valeur |-> v.valeur]
            ELSE [erreur |-> "JSONDecodeError", valeur |-> Liste(<<>>)]

\* json.dump: the tokens of a value (json_dump), and of the elements of a list
\* from the k-th on, commas between them (SerialiserElements)
RECURSIVE json_dump(_)
RECURSIVE SerialiserElements(_, _)
json_dump(valeur) ==
    IF valeur.t = "liste"
    THEN <<Crochet>> \o SerialiserElements(valeur.elements, 1) \o <<CrochetFermant>>
    ELSE <<valeur>>

SerialiserElements(elements, k) ==
    IF k > Len(elements) THEN <<>>
    ELSE json_dump(elements[k])
         \o (IF k < Len(elements) THEN <<Virgule>> ELSE <<>>)
         \o SerialiserElements(elements, k + 1)

\* AjouterEntree with the fault of donnees_existantes.insert(0, entree)
AjouterEntreeEnTete(donnees_existantes, entree) ==
    Liste(<<entree>> \o donnees_existantes.elements)

\* "donnees_existantes.append(entree)"
AjouterEntree(donnees_existantes, entree) ==
    Liste(Append(donnees_existantes.elements, entree))

\* donnees_existantes before the append: [] for an absent file and after
\* json.JSONDecodeError, the list of the file, or [value] for a value of the
\* file that is no list
DonneesExistantes(fichier) ==
    IF ~fichier.existe THEN Liste(<<>>)
    ELSE LET lu == json_load(fichier.contenu)
         IN IF lu.erreur # "aucune" THEN Liste(<<>>)
            ELSE IF lu.valeur.t = "liste" THEN lu.valeur
            ELSE Liste(<<lu.valeur>>)

\* what the file system does with the write of a call: it goes through, open()
\* raises and the file is left as it was, or the write raises after open()
\* emptied the file
Ecritures == {"ok", "refusee", "interrompue"}

\* enregistrer_dans_fichier(entites, nom_fichier) at the time maintenant on
\* the files fs: the files after the call and what the call returns ("True",
\* "False") or raises
enregistrer_dans_fichier(fs, e, nom_fichier, maintenant, ecriture) ==
    LET entree == Entree(maintenant, e)
        fichier == fs[nom_fichier]
        donnees_existantes == AjouterEntree(DonneesExistantes(fichier), entree)
    IN IF fichier.existe /\ json_load(fichier.contenu).erreur = "UnicodeDecodeError"
       THEN [fichiers |-> fs, retour |-> "UnicodeDecodeError"]
       ELSE CASE ecriture = "ok" ->
                   [fichiers |-> [fs EXCEPT ![nom_fichier] = Fichier(json_dump(donnees_existantes))],
                    retour |-> "True"]
              [] ecriture = "refusee" -> [fichiers |-> fs, retour |-> "False"]
              [] ecriture = "interrompue" ->
                   [fichiers |-> [fs EXCEPT ![nom_fichier] = Fichier(<<>>)],
                    retour |-> "False"]

(************************** principale: the interactive mode ***************)

\* "ligne.strip().lower() in ['quit', 'exit', 'q']"
commandes_quitter == {W("quit"), W("exit"), W("q")}
EstCommandeQuitter(ligne) == lower(strip(ligne)) \in commandes_quitter

\* "not ligne.strip()"
EstLigneVide(ligne) == Len(strip(ligne)) = 0

\* sep.join(lignes)
RECURSIVE join(_, _)
join(sep, lignes) ==
    IF Len(lignes) = 0 THEN <<>>
    ELSE IF Len(lignes) = 1 THEN lignes[1]
    ELSE lignes[1] \o sep \o join(sep, Tail(lignes))

\* str.endswith
endswith(s, suffixe) ==
    Len(s) >= Len(suffixe) /\ SubSeq(s, Len(s) - Len(suffixe) + 1, Len(s)) = suffixe

\* ReponseOui with the fault of saving unless the answer is 'n'
ReponsePasNon(reponse) == lower(strip(reponse)) # W("n")

\* "enregistrer == 'o'" for enregistrer = input(...).strip().lower()
ReponseOui(reponse) == lower(strip(reponse)) = W("o")

\* "nom_fichier = input(...).strip() or "medicaments.json"; if not
\* nom_fichier.endswith('.json'): nom_fichier += '.json'"
NomDuFichier(reponse) ==
    LET nom_fichier == IF Len(strip(reponse)) > 0 THEN strip(reponse)
                       ELSE W("medicaments.json")
    IN IF ~endswith(nom_fichier, W(".json")) THEN nom_fichier \o W(".json")
       ELSE nom_fichier

(***************************************************************************)
(* The inputs of the model                                                 *)
(***************************************************************************)

\* the most words of a label text
MaxMots == 3
\* the most characters of a raw text
MaxBrut == 5

\* the words label texts are made of
Vocabulaire == {W("Saidal"), W("LOT"), W("ABC"), W("Acide"), W("5mg"), W("5ml")}

\* what stands between the words of a label text: the label is read line by
\* line, or as one line with dashes
Separateurs == {W("\n"), W(" - ")}

\* the characters raw texts are made of
CaracteresBruts == {"a", " ", "\n"}

\* the label texts of n words with sep between them
RECURSIVE TextesDeMots(_, _)
TextesDeMots(n, sep) ==
    IF n = 1 THEN Vocabulaire
    ELSE {t \o sep \o mot : t \in TextesDeMots(n - 1, sep), mot \in Vocabulaire}

\* the raw texts of n characters
RECURSIVE TextesBruts(_)
TextesBruts(n) ==
    IF n = 0 THEN {<<>>}
    ELSE {Append(t, c) : t \in TextesBruts(n - 1), c \in CaracteresBruts}

Textes ==
    UNION {TextesDeMots(n, sep) : n \in 1..MaxMots, sep \in Separateurs}
    \cup UNION {TextesBruts(n) : n \in 0..MaxBrut}

\* the most fragments of a text of fragments
MaxFragments == 2

\* pieces of labels and of prose: registry names alone and glued to one
\* another, a lower-case word around "lot", form words, and a name with an
\* ingredient between dashes
Fragments ==
    {W("VIGNETTE"), W("SAIDAL"), W("VIGNETTESAIDAL"), W("pilote"), W("sirop"), W("gel"),
     W("ABC - Acide -")}

\* the texts of n fragments, a space between two of them
RECURSIVE TextesDeFragments(_)
TextesDeFragments(n) ==
    IF n = 1 THEN Fragments
    ELSE {t \o W(" ") \o f : t \in TextesDeFragments(n - 1), f \in Fragments}

TextesFragments == UNION {TextesDeFragments(n) : n \in 1..MaxFragments}

\* The label of the first test case of principale, on one line and with its
\* fields on separate lines
EtiquetteParacetamol ==
    W("LOT 77A BIOCARE 500 mg PARACETAMOL EXP 04-2026 Comprim") \o <<EAigu>>
      \o W("s FAB 02-2024 TR: 62.5DA")
EtiquetteParacetamolLignes ==
    W("LOT 77A  \nBIOCARE  \n500 mg PARACETAMOL  \nEXP 04-2026  \nComprim") \o <<EAigu>>
      \o W("s  \nFAB 02-2024  \nTR: 62.5DA")

\* a label whose name stands before the dosage
EtiquetteAmoxicillin ==
    W("AMOXICILLIN 500mg Comprim") \o <<EAigu>> \o W("s LOT: 12345 EXP: 12-2025")

\* short texts for the strategies of the name: the name after the
\* manufacturer, after the dosage, at the end after a dash, at the end with no
\* dash, after a word of the labels, and no name at all
NomApresEntreprise == W("SAIDAL ABC 5mg")
NomApresDosage == W("SAIDAL 5mg ABC")
NomEnFinApresTiret == W("ZZZ abc - DOLIPRANE")
NomEnFinSansTiret == W("ZZZ abc DOLIPRANE")
NomApresMotExclu == W("LOT 5 ABC")
SansNom == W("SAIDAL 5mg")

\* a phrase between two dashes, with a name before it and without
PhraseEntreTiretsAvecNom == W("ABC - Codeine - x")
PhraseEntreTiretsSansNom == W("5 - Codeine - 3")

\* a dosage, a dash and a lower-case phrase that ends in a marker, for each
\* marker of mots_cles_principes
TexteMarqueur(marqueur) == W("5mg - xx ") \o marqueur
TextesMarqueurs == {TexteMarqueur(marqueur) : marqueur \in mots_cles_principes}

\* a form word and a count, as the test cases of principale have them: the
\* count before the form word, and after it
CompteAvantFormeB == W("B/20 g") \o <<EAigu>> \o W("lules")
CompteAvantFormeBoite == W("Bo") \o <<ICirc>> \o W("te de 30 G") \o <<EAigu>> \o W("lules")
CompteApresFormeB == W("Suppositoires/B10")
CompteApresFormeBoite ==
    W("Comprim") \o <<EAigu>> \o W("e bo") \o <<ICirc>> \o W("te de 20")

\* a count and a word that holds the form word "gel" and is no form word
CompteAvantGelatine == W("B/20 gelatine")

TextesParticuliers ==
    {EtiquetteParacetamol, EtiquetteParacetamolLignes, EtiquetteAmoxicillin,
     NomApresEntreprise, NomApresDosage, NomEnFinApresTiret, NomEnFinSansTiret,
     NomApresMotExclu, SansNom, PhraseEntreTiretsAvecNom, PhraseEntreTiretsSansNom,
     CompteAvantFormeB, CompteAvantFormeBoite, CompteApresFormeB, CompteApresFormeBoite,
     CompteAvantGelatine}
    \cup TextesMarqueurs

(***************************************************************************)
(* One call of predire: the steps of analyser_format_algerian in order     *)
(***************************************************************************)

VARIABLES texte_original, texte, entreprise_trouvee, nom_medicament, entites, total, pc,
          instance, entreprises_examinees

\* the files, the clock, and the calls of enregistrer_dans_fichier so far
VARIABLES fichiers, fichiers_au_depart, horloge, appels_enregistrer

\* principale in its interactive mode: where it stands, its local variables,
\* the lines read for the submission at hand, what it called so far, and
\* whether the standard input has come to its end
VARIABLES pc_shell, lignes, compte_ligne_vide, entree_utilisateur, resultat, enregistrer,
          saisies, lectures, soumission, appels_predire, sauvegardes, fin_entree

\* two calls of analyser_format_algerian at once: the text of each, where each
\* stands, the local variables of each and what each returned
VARIABLES arguments, pcs, cadres, retours

\* the state of one call of predire, and the classifier it is called on
vars_appel ==
    <<texte_original, texte, entreprise_trouvee, nom_medicament, entites, total, pc,
      instance, entreprises_examinees>>

vars_journal == <<fichiers, fichiers_au_depart, horloge, appels_enregistrer>>

vars_shell ==
    <<pc_shell, lignes, compte_ligne_vide, entree_utilisateur, resultat, enregistrer,
      saisies, lectures, soumission, appels_predire, sauvegardes, fin_entree>>

vars_concurrents == <<arguments, pcs, cadres, retours>>

vars == <<vars_appel, vars_journal, vars_shell, vars_concurrents>>

\* the lines the user types
LignesPossibles == {W(""), W(" "), W(" Q "), W("ABC 5mg"), W(" O"), W("a")}

\* the files the interactive mode can name
NomsDeFichiers == {NomDuFichier(ligne) : ligne \in LignesPossibles}

\* the two calls that run at once
Appels == {1, 2}

\* no call of predire is under way
AppelAuRepos ==
    /\ texte_original = <<>>
    /\ texte = <<>>
    /\ entreprise_trouvee = None
    /\ nom_medicament = None
    /\ entites = entites_vides
    /\ total = None
    /\ pc = "fin"
    /\ entreprises_examinees = 0

\* no file, and no call of enregistrer_dans_fichier yet
JournalAuRepos ==
    /\ fichiers = [nom \in NomsDeFichiers |-> FichierAbsent]
    /\ fichiers_au_depart = fichiers
    /\ horloge = 1
    /\ appels_enregistrer = <<>>

\* principale is not in its interactive mode
ShellAuRepos ==
    /\ pc_shell = "termine"
    /\ lignes = <<>>
    /\ compte_ligne_vide = 0
    /\ entree_utilisateur = <<>>
    /\ resultat = entites_vides
    /\ enregistrer = <<>>
    /\ saisies = <<>>
    /\ lectures = 0
    /\ soumission = 0
    /\ appels_predire = <<>>
    /\ sauvegardes = <<>>
    /\ fin_entree = FALSE

\* no two calls at once
ConcurrentsAuRepos ==
    /\ arguments = [i \in Appels |-> <<>>]
    /\ pcs = [i \in Appels |-> "retour"]
    /\ cadres = [i \in Appels |-> Locales(<<>>)]
    /\ retours = [i \in Appels |-> entites_vides]

\* The texts of Textes name one entry of the registry at most and no form
\* word: the order of iteration has no effect on them, and they are analysed
\* under one order.  The texts of fragments and the particular texts are
\* analysed under each order.
Init ==
    /\ \/ texte_original \in Textes /\ instance = InstanceDansLOrdre
       \/ texte_original \in TextesFragments /\ instance \in Instances
       \/ texte_original \in TextesParticuliers /\ instance \in Instances
    /\ texte = texte_original
    /\ entreprise_trouvee = None
    /\ nom_medicament = None
    /\ entites = entites_vides
    /\ total = None
    /\ pc = "normaliser"
    /\ entreprises_examinees = 0
    /\ JournalAuRepos
    /\ ShellAuRepos
    /\ ConcurrentsAuRepos

Normaliser ==
    /\ pc = "normaliser"
    /\ texte' = normaliser_texte(texte)
    /\ pc' = "entreprise"
    /\ UNCHANGED <<texte_original, entreprise_trouvee, nom_medicament, entites, total>>
    /\ UNCHANGED <<instance, entreprises_examinees>>
    /\ UNCHANGED <<vars_journal, vars_shell, vars_concurrents>>

DetecterEntreprise ==
    /\ pc = "entreprise"
    /\ LET b == BoucleEntreprises(instance.entreprises_algeriennes, upper(texte), 1)
       IN /\ entreprise_trouvee' = b.entreprise_trouvee
          /\ entites' = [entites EXCEPT !.entreprise = b.entreprise]
          /\ entreprises_examinees' = b.examinees
    /\ pc' = "nom"
    /\ UNCHANGED <<texte_original, texte, nom_medicament, total, instance>>
    /\ UNCHANGED <<vars_journal, vars_shell, vars_concurrents>>

NomDuMedicament ==
    /\ pc = "nom"
    /\ nom_medicament' = ResoudreNom(texte, entreprise_trouvee)
    /\ entites' = [entites EXCEPT !.nom_medicament = ListeNom(nom_medicament')]
    /\ pc' = "principe"
    /\ UNCHANGED <<texte_original, texte, entreprise_trouvee, total>>
    /\ UNCHANGED <<instance, entreprises_examinees>>
    /\ UNCHANGED <<vars_journal, vars_shell, vars_concurrents>>

PrincipeActif ==
    /\ pc = "principe"
    /\ entites' = [entites EXCEPT !.principe_actif = ResoudrePrincipe(texte, nom_medicament)]
    /\ pc' = "dosage"
    /\ UNCHANGED <<texte_original, texte, entreprise_trouvee, nom_medicament, total>>
    /\ UNCHANGED <<instance, entreprises_examinees>>
    /\ UNCHANGED <<vars_journal, vars_shell, vars_concurrents>>

Dosage ==
    /\ pc = "dosage"
    /\ entites' = [entites EXCEPT !.dosage = ExtraireDosage(texte)]
    /\ pc' = "forme"
    /\ UNCHANGED <<texte_original, texte, entreprise_trouvee, nom_medicament, total>>
    /\ UNCHANGED <<instance, entreprises_examinees>>
    /\ UNCHANGED <<vars_journal, vars_shell, vars_concurrents>>

FormePharmaceutique ==
    /\ pc = "forme"
    /\ entites' = [entites EXCEPT !.forme_pharmaceutique =
                                     ExtraireForme(texte, instance.formes_pharmaceutiques)]
    /\ pc' = "lot"
    /\ UNCHANGED <<texte_original, texte, entreprise_trouvee, nom_medicament, total>>
    /\ UNCHANGED <<instance, entreprises_examinees>>
    /\ UNCHANGED <<vars_journal, vars_shell, vars_concurrents>>

\* numero_lot, date_fabrication, date_peremption, prix, numero_enregistrement
\* and the return
LotDatesPrixDE ==
    /\ pc = "lot"
    /\ entites' = [entites EXCEPT !.numero_lot = ExtraireLot(texte),
                                  !.date_fabrication = ExtraireFab(texte),
                                  !.date_peremption = ExtraireExp(texte),
                                  !.prix = ExtrairePrix(texte),
                                  !.numero_enregistrement = ExtraireDE(texte)]
    /\ pc' = "total"
    /\ UNCHANGED <<texte_original, texte, entreprise_trouvee, nom_medicament, total>>
    /\ UNCHANGED <<instance, entreprises_examinees>>
    /\ UNCHANGED <<vars_journal, vars_shell, vars_concurrents>>

\* predire, after analyser_format_algerian returned
Predire ==
    /\ pc = "total"
    /\ total' = Total(entites)
    /\ pc' = "fin"
    /\ UNCHANGED <<texte_original, texte, entreprise_trouvee, nom_medicament, entites>>
    /\ UNCHANGED <<instance, entreprises_examinees>>
    /\ UNCHANGED <<vars_journal, vars_shell, vars_concurrents>>

Next ==
    \/ Normaliser
    \/ DetecterEntreprise
    \/ NomDuMedicament
    \/ PrincipeActif
    \/ Dosage
    \/ FormePharmaceutique
    \/ LotDatesPrixDE
    \/ Predire

Spec == Init /\ [][Next]_vars

(***************************************************************************)
(* Calls of enregistrer_dans_fichier, one after the other, on the file of   *)
(* its default argument, which starts absent or with any content            *)
(***************************************************************************)

\* the most tokens of the file at the start
MaxJetons == 3
\* the most calls of enregistrer_dans_fichier
MaxAppels == 2

\* an entry that an earlier run of the program wrote
AncienneEntree == Entree(0, entites_vides)

JetonsPossibles == {Crochet, CrochetFermant, Virgule, OctetInvalide, AncienneEntree}

\* the contents of n tokens
RECURSIVE ContenusDe(_)
ContenusDe(n) ==
    IF n = 0 THEN {<<>>}
    ELSE {Append(c, j) : c \in ContenusDe(n - 1), j \in JetonsPossibles}

FichiersPossibles ==
    {FichierAbsent} \cup {Fichier(c) : c \in UNION {ContenusDe(n) : n \in 0..MaxJetons}}

\* the results handed to enregistrer_dans_fichier
EntitesPossibles == {entites_vides, [entites_vides EXCEPT !.dosage = <<W("5mg")>>]}

\* nom_fichier: str = "medicaments.json"
nom_fichier_par_defaut == W("medicaments.json")

InitJournal ==
    /\ \E f \in FichiersPossibles :
          fichiers = [nom \in NomsDeFichiers |->
                        IF nom = nom_fichier_par_defaut THEN f ELSE FichierAbsent]
    /\ fichiers_au_depart = fichiers
    /\ horloge = 1
    /\ appels_enregistrer = <<>>
    /\ instance = InstanceDansLOrdre
    /\ AppelAuRepos
    /\ ShellAuRepos
    /\ ConcurrentsAuRepos

\* one call enregistrer_dans_fichier(e, nom_fichier), from its first line to
\* its return or to the exception that leaves it
Enregistrer(e, nom_fichier, ecriture) ==
    LET r == enregistrer_dans_fichier(fichiers, e, nom_fichier, horloge, ecriture)
    IN /\ fichiers' = r.fichiers
       /\ horloge' = horloge + 1
       /\ appels_enregistrer' =
             Append(appels_enregistrer,
                    [nom_fichier |-> nom_fichier, avant |-> fichiers[nom_fichier],
                     ecriture |-> ecriture, retour |-> r.retour,
                     entree |-> Entree(horloge, e), apres |-> r.fichiers[nom_fichier]])
       /\ UNCHANGED fichiers_au_depart

AppelerEnregistrer ==
    /\ Len(appels_enregistrer) < MaxAppels
    /\ \E e \in EntitesPossibles, ecriture \in Ecritures :
          Enregistrer(e, nom_fichier_par_defaut, ecriture)
    /\ UNCHANGED <<vars_appel, vars_shell, vars_concurrents>>

NextJournal == AppelerEnregistrer

SpecJournal == InitJournal /\ [][NextJournal]_vars

(***************************************************************************)
(* principale in its interactive mode, from "while True:" on: one action    *)
(* for each way an input() ends, up to the next input()                     *)
(***************************************************************************)

\* the most calls of input()
MaxLectures == 4

\* the file of the default name at the start: absent, or with bytes that are
\* no UTF-8
InitShell ==
    /\ pc_shell = "saisie"
    /\ lignes = <<>>
    /\ compte_ligne_vide = 0
    /\ entree_utilisateur = <<>>
    /\ resultat = entites_vides
    /\ enregistrer = <<>>
    /\ saisies = <<>>
    /\ lectures = 0
    /\ soumission = 1
    /\ appels_predire = <<>>
    /\ sauvegardes = <<>>
    /\ fin_entree = FALSE
    /\ \E f \in {FichierAbsent, Fichier(<<OctetInvalide>>)} :
          fichiers = [nom \in NomsDeFichiers |->
                        IF nom = nom_fichier_par_defaut THEN f ELSE FichierAbsent]
    /\ fichiers_au_depart = fichiers
    /\ horloge = 1
    /\ appels_enregistrer = <<>>
    /\ instance = InstanceDansLOrdre
    /\ AppelAuRepos
    /\ ConcurrentsAuRepos

\* "classificateur.predire(entree)" is entered: the local variables of the
\* call as analyser_format_algerian sets them first
AppelerPredire(entree) ==
    /\ texte_original' = entree
    /\ texte' = entree
    /\ entreprise_trouvee' = None
    /\ nom_medicament' = None
    /\ entites' = entites_vides
    /\ total' = None
    /\ pc' = "normaliser"
    /\ entreprises_examinees' = 0
    /\ UNCHANGED instance

\* after the inner loop: "entree_utilisateur = '\n'.join(lignes).strip(); if
\* not entree_utilisateur: break; entites = classificateur.predire(...)",
\* up to the call of predire
Soumettre ==
    LET entree == strip(join(W("\n"), lignes))
    IN /\ entree_utilisateur' = entree
       /\ IF Len(entree) = 0
          THEN /\ pc_shell' = "termine"
               /\ UNCHANGED <<appels_predire, vars_appel>>
          ELSE /\ AppelerPredire(entree)
               /\ appels_predire' =
                     Append(appels_predire,
                            [soumission |-> soumission, texte |-> entree, lignes |-> lignes])
               /\ pc_shell' = "predire"
       /\ UNCHANGED resultat

\* predire returns: "entites = classificateur.predire(entree_utilisateur)",
\* up to the input() of the save prompt
RetourDePredire ==
    /\ pc_shell = "predire"
    /\ pc = "fin"
    /\ resultat' = entites
    /\ pc_shell' = "invite"
    /\ UNCHANGED <<lignes, compte_ligne_vide, entree_utilisateur, enregistrer, saisies,
                   lectures, soumission, appels_predire, sauvegardes, fin_entree>>
    /\ UNCHANGED <<vars_appel, vars_journal, vars_concurrents>>

\* the head of the outer loop: "lignes = []; compte_ligne_vide = 0"
NouvelleSaisie ==
    /\ pc_shell' = "saisie"
    /\ lignes' = <<>>
    /\ compte_ligne_vide' = 0
    /\ saisies' = <<>>
    /\ soumission' = soumission + 1

\* input() raises EOFError: the standard input has come to its end (a file,
\* a pipe), or it is a terminal whose end-of-file condition is over with the
\* next call
FinDEntree == fin_entree' \in {fin \in BOOLEAN : fin_entree => fin}

\* "ligne = input()" of the inner loop returns a line
LireLigne ==
    /\ pc_shell = "saisie"
    /\ ~fin_entree
    /\ lectures < MaxLectures
    /\ lectures' = lectures + 1
    /\ \E ligne \in LignesPossibles :
          /\ saisies' = Append(saisies, ligne)
          /\ IF EstCommandeQuitter(ligne) /\ Len(lignes) = 0
             THEN /\ pc_shell' = "termine"
                  /\ UNCHANGED <<lignes, compte_ligne_vide, entree_utilisateur, resultat,
                                 appels_predire, vars_appel>>
             ELSE IF EstLigneVide(ligne)
             THEN /\ compte_ligne_vide' = compte_ligne_vide + 1
                  /\ UNCHANGED lignes
                  /\ IF compte_ligne_vide + 1 >= 1 /\ Len(lignes) > 0
                     THEN Soumettre
                     ELSE UNCHANGED <<pc_shell, entree_utilisateur, resultat, appels_predire,
                                      vars_appel>>
             ELSE /\ compte_ligne_vide' = 0
                  /\ lignes' = Append(lignes, ligne)
                  /\ UNCHANGED <<pc_shell, entree_utilisateur, resultat, appels_predire,
                                 vars_appel>>
    /\ UNCHANGED <<enregistrer, soumission, sauvegardes, fin_entree>>
    /\ UNCHANGED <<vars_journal, vars_concurrents>>

\* "ligne = input()" of the inner loop raises EOFError: break
FinDeSaisie ==
    /\ pc_shell = "saisie"
    /\ lectures < MaxLectures
    /\ lectures' = lectures + 1
    /\ FinDEntree
    /\ Soumettre
    /\ UNCHANGED <<lignes, compte_ligne_vide, saisies, enregistrer, soumission, sauvegardes>>
    /\ UNCHANGED <<vars_journal, vars_concurrents>>

\* "enregistrer = input("Enregistrer? (o/n): ").strip().lower()" returns
RepondreEnregistrer ==
    /\ pc_shell = "invite"
    /\ ~fin_entree
    /\ lectures < MaxLectures
    /\ lectures' = lectures + 1
    /\ \E reponse \in LignesPossibles :
          /\ enregistrer' = lower(strip(reponse))
          /\ IF ReponseOui(reponse)
             THEN /\ pc_shell' = "nom"
                  /\ UNCHANGED <<lignes, compte_ligne_vide, saisies, soumission>>
             ELSE NouvelleSaisie
    /\ UNCHANGED <<entree_utilisateur, resultat, appels_predire, sauvegardes, fin_entree>>
    /\ UNCHANGED <<vars_appel, vars_journal, vars_concurrents>>

\* "nom_fichier = input(...)" returns: the name is completed and
\* enregistrer_dans_fichier is called; an exception it raises ends principale
DonnerNomFichier ==
    /\ pc_shell = "nom"
    /\ ~fin_entree
    /\ lectures < MaxLectures
    /\ lectures' = lectures + 1
    /\ \E reponse \in LignesPossibles, ecriture \in Ecritures :
          LET nom_fichier == NomDuFichier(reponse)
              retour == enregistrer_dans_fichier(fichiers, resultat, nom_fichier, horloge,
                                                 ecriture).retour
          IN /\ Enregistrer(resultat, nom_fichier, ecriture)
             /\ sauvegardes' =
                   Append(sauvegardes, [soumission |-> soumission, reponse |-> enregistrer,
                                        nom_fichier |-> nom_fichier])
             /\ IF retour \in {"True", "False"}
                THEN NouvelleSaisie
                ELSE /\ pc_shell' = "erreur"
                     /\ UNCHANGED <<lignes, compte_ligne_vide, saisies, soumission>>
    /\ UNCHANGED <<entree_utilisateur, resultat, enregistrer, appels_predire, fin_entree>>
    /\ UNCHANGED <<vars_appel, vars_concurrents>>

\* the input() of the save prompt or of the file name raises EOFError, which
\* nothing catches
FinDEntreeHorsSaisie ==
    /\ pc_shell \in {"invite", "nom"}
    /\ lectures < MaxLectures
    /\ lectures' = lectures + 1
    /\ FinDEntree
    /\ pc_shell' = "erreur"
    /\ UNCHANGED <<lignes, compte_ligne_vide, entree_utilisateur, resultat, enregistrer,
                   saisies, soumission, appels_predire, sauvegardes>>
    /\ UNCHANGED <<vars_appel, vars_journal, vars_concurrents>>

\* the sections of the call of predire are the actions of Next
NextShell ==
    \/ LireLigne
    \/ FinDeSaisie
    \/ Next
    \/ RetourDePredire
    \/ RepondreEnregistrer
    \/ DonnerNomFichier
    \/ FinDEntreeHorsSaisie

SpecShell == InitShell /\ [][NextShell]_vars

\* the places of a call of predire
Etapes ==
    {"normaliser", "entreprise", "nom", "principe", "dosage", "forme", "lot", "total", "fin"}

\* a call of input() by principale: it returns a line or raises EOFError
EntreeStandard ==
    \/ LireLigne
    \/ FinDeSaisie
    \/ RepondreEnregistrer
    \/ DonnerNomFichier
    \/ FinDEntreeHorsSaisie

\* a call of predire that has not returned goes on to another place: what
\* every action of Next does to pc, and no more, so that whether the step is
\* possible is read from pc alone
SectionSuivante ==
    /\ pc # "fin"
    /\ pc' \in Etapes \ {pc}

\* principale keeps running: a call of input() returns or raises, a call of
\* predire goes through its sections and returns; nothing else is scheduled
SpecShellEquitable ==
    /\ SpecShell
    /\ WF_vars(EntreeStandard)
    /\ WF_pc(SectionSuivante)
    /\ WF_vars(RetourDePredire)

(***************************************************************************)
(* Two calls of analyser_format_algerian at once on one classifier: the     *)
(* sections of the two calls interleave in every way                        *)
(***************************************************************************)

\* the texts of the two calls
TextesConcurrents ==
    {W("VIGNETTE SAIDAL 5mg"), W("ABC - Acide - 5mg"), W("LOT\n5mg"), W("sirop gel"), <<>>}

\* CadreDe with the fault of keeping the variables of every call in one place
\* (as attributes of self)
CadreCommun(i) == 1

\* where the call i keeps texte, entreprise_trouvee, nom_medicament and
\* entites: they are local variables, in the frame of the call
CadreDe(i) == i

\* the place of a call after the place p: before the call, the sections in
\* order, after the return
PlaceSuivante(p) ==
    CASE p = "appel" -> "normaliser"
      [] p = "normaliser" -> "entreprise"
      [] p = "entreprise" -> "nom"
      [] p = "nom" -> "principe"
      [] p = "principe" -> "dosage"
      [] p = "dosage" -> "forme"
      [] p = "forme" -> "lot"
      [] p = "lot" -> "return"
      [] p = "return" -> "retour"

InitConcurrents ==
    /\ arguments \in [Appels -> TextesConcurrents]
    /\ pcs = [i \in Appels |-> "appel"]
    /\ cadres = [i \in Appels |-> Locales(<<>>)]
    /\ retours = [i \in Appels |-> entites_vides]
    /\ instance \in Instances
    /\ AppelAuRepos
    /\ JournalAuRepos
    /\ ShellAuRepos

\* the call i starts: its argument and "entites = {...}"
Entrer(i) ==
    /\ pcs[i] = "appel"
    /\ cadres' = [cadres EXCEPT ![CadreDe(i)] = Locales(arguments[i])]
    /\ pcs' = [pcs EXCEPT ![i] = PlaceSuivante(pcs[i])]
    /\ UNCHANGED <<arguments, retours>>
    /\ UNCHANGED <<vars_appel, vars_journal, vars_shell>>

\* the call i goes through one section
Avancer(i) ==
    /\ pcs[i] \in Range(Sections)
    /\ \E c \in {cadres[CadreDe(i)]} :
          cadres' = [cadres EXCEPT ![CadreDe(i)] = Etape(pcs[i], c, instance)]
    /\ pcs' = [pcs EXCEPT ![i] = PlaceSuivante(pcs[i])]
    /\ UNCHANGED <<arguments, retours>>
    /\ UNCHANGED <<vars_appel, vars_journal, vars_shell>>

\* "return entites": the call i returns the entites of its frame
Retourner(i) ==
    /\ pcs[i] = "return"
    /\ retours' = [retours EXCEPT ![i] = cadres[CadreDe(i)].entites]
    /\ pcs' = [pcs EXCEPT ![i] = PlaceSuivante(pcs[i])]
    /\ UNCHANGED <<arguments, cadres>>
    /\ UNCHANGED <<vars_appel, vars_journal, vars_shell>>

NextConcurrents ==
    \E i \in Appels :
       \/ Entrer(i)
       \/ Avancer(i)
       \/ Retourner(i)

SpecConcurrents == InitConcurrents /\ [][NextConcurrents]_vars

(***************************************************************************)
(* Two calls of enregistrer_dans_fichier at once on the file of the        *)
(* default name: the steps of the two calls interleave in every way.  Of   *)
(* each call, arguments holds the result to save, pcs the step it is at,   *)
(* cadres its local variables and retours what it returned or raised.      *)
(***************************************************************************)

\* the log at the start: absent, empty, holding bytes that are no UTF-8, or a
\* list of one entry
JournauxAuDepart ==
    {FichierAbsent, Fichier(<<>>), Fichier(<<OctetInvalide>>),
     Fichier(json_dump(Liste(<<AncienneEntree>>)))}

\* the local variables of a call of enregistrer_dans_fichier
LocalesEnregistrer(entree, donnees_existantes) ==
    [entree |-> entree, donnees_existantes |-> donnees_existantes]

InitEnregistrementsConcurrents ==
    /\ \E f \in JournauxAuDepart :
          fichiers = [nom \in NomsDeFichiers |->
                        IF nom = nom_fichier_par_defaut THEN f ELSE FichierAbsent]
    /\ fichiers_au_depart = fichiers
    /\ horloge = 1
    /\ appels_enregistrer = <<>>
    /\ arguments \in [Appels -> EntitesPossibles]
    /\ pcs = [i \in Appels |-> "entree"]
    /\ cadres = [i \in Appels |-> LocalesEnregistrer(AncienneEntree, Liste(<<>>))]
    /\ retours = [i \in Appels |-> None]
    /\ instance = InstanceDansLOrdre
    /\ AppelAuRepos
    /\ ShellAuRepos

\* "entree = {'horodatage': datetime.now().isoformat(), 'donnees': entites}"
\* and "donnees_existantes = []"
Horodater(i) ==
    /\ pcs[i] = "entree"
    /\ cadres' = [cadres EXCEPT ![i] =
                    LocalesEnregistrer(Entree(horloge, arguments[i]), Liste(<<>>))]
    /\ horloge' = horloge + 1
    /\ pcs' = [pcs EXCEPT ![i] = "lire"]
    /\ UNCHANGED <<fichiers, fichiers_au_depart, appels_enregistrer, arguments, retours>>
    /\ UNCHANGED <<vars_appel, vars_shell>>

\* "if os.path.exists(nom_fichier): try: ... json.load(f) ... except
\* json.JSONDecodeError: ...": the call reads the file as it is now; another
\* exception than JSONDecodeError leaves the call
Lire(i) ==
    /\ pcs[i] = "lire"
    /\ LET fichier == fichiers[nom_fichier_par_defaut]
       IN IF fichier.existe /\ json_load(fichier.contenu).erreur = "UnicodeDecodeError"
          THEN /\ pcs' = [pcs EXCEPT ![i] = "retour"]
               /\ retours' = [retours EXCEPT ![i] = "UnicodeDecodeError"]
               /\ UNCHANGED cadres
          ELSE /\ pcs' = [pcs EXCEPT ![i] = "ajouter"]
               /\ cadres' = [cadres EXCEPT ![i].donnees_existantes =
                                               DonneesExistantes(fichier)]
               /\ UNCHANGED retours
    /\ UNCHANGED <<vars_journal, arguments>>
    /\ UNCHANGED <<vars_appel, vars_shell>>

\* "donnees_existantes.append(entree)"
Ajouter(i) ==
    /\ pcs[i] = "ajouter"
    /\ cadres' = [cadres EXCEPT ![i].donnees_existantes =
                                    AjouterEntree(cadres[i].donnees_existantes,
                                                  cadres[i].entree)]
    /\ pcs' = [pcs EXCEPT ![i] = "ouvrir"]
    /\ UNCHANGED <<vars_journal, arguments, retours>>
    /\ UNCHANGED <<vars_appel, vars_shell>>

\* "with open(nom_fichier, 'w', encoding='utf-8') as f": the file is emptied,
\* or open() raises and the call returns False
Ouvrir(i) ==
    /\ pcs[i] = "ouvrir"
    /\ \/ /\ fichiers' = [fichiers EXCEPT ![nom_fichier_par_defaut] = Fichier(<<>>)]
          /\ pcs' = [pcs EXCEPT ![i] = "ecrire"]
          /\ UNCHANGED retours
       \/ /\ pcs' = [pcs EXCEPT ![i] = "retour"]
          /\ retours' = [retours EXCEPT ![i] = "False"]
          /\ UNCHANGED fichiers
    /\ UNCHANGED <<fichiers_au_depart, horloge, appels_enregistrer, arguments, cadres>>
    /\ UNCHANGED <<vars_appel, vars_shell>>

\* "json.dump(donnees_existantes, f, ...)" and "return True": the file holds
\* what this call wrote; or the write raises and the call returns False
Ecrire(i) ==
    /\ pcs[i] = "ecrire"
    /\ \/ /\ fichiers' = [fichiers EXCEPT ![nom_fichier_par_defaut] =
                                 Fichier(json_dump(cadres[i].donnees_existantes))]
          /\ retours' = [retours EXCEPT ![i] = "True"]
       \/ /\ retours' = [retours EXCEPT ![i] = "False"]
          /\ UNCHANGED fichiers
    /\ pcs' = [pcs EXCEPT ![i] = "retour"]
    /\ UNCHANGED <<fichiers_au_depart, horloge, appels_enregistrer, arguments, cadres>>
    /\ UNCHANGED <<vars_appel, vars_shell>>

NextEnregistrementsConcurrents ==
    \E i \in Appels :
       \/ Horodater(i)
       \/ Lire(i)
       \/ Ajouter(i)
       \/ Ouvrir(i)
       \/ Ecrire(i)

SpecEnregistrementsConcurrents ==
    InitEnregistrementsConcurrents /\ [][NextEnregistrementsConcurrents]_vars

(***************************************************************************)
(* Properties                                                              *)
(***************************************************************************)

\* the characters of the model
Caracteres ==
    WordChars \cup Whitespace
    \cup {"-", ".", "&", "/", ":", "=", "+", "%", Degre, Tiret}

IsString(x) == x # None /\ \A k \in DOMAIN x : x[k] \in Caracteres

\* analyser_format_algerian has returned and predire has counted
Fini == pc = "fin"

ToutEspace(s) == \A k \in DOMAIN s : s[k] \in Whitespace

\* C1: in every result, the medication name is never equal, case ignored, to
\* a value of entreprise, and is never one of the words VIGNETTE, PRIX, LOT,
\* FAB, EXP, PER.
C1_NomNiEntrepriseNiMotExclu ==
    Fini => \A n \in Range(entites.nom_medicament) :
              /\ \A e \in Range(entites.entreprise) : upper(n) # upper(e)
              /\ n \notin mots_exclus

\* C2: in every result, no value of principe_actif is equal, case ignored,
\* to the resolved medication name.
C2_PrincipeDiffereDuNom ==
    Fini => \A p \in Range(entites.principe_actif) :
              \A n \in Range(entites.nom_medicament) : upper(p) # upper(n)

\* C3: in every result, no value of principe_actif is equal, case ignored,
\* to a value of entreprise.
C3_PrincipeDiffereDeEntreprise ==
    Fini => \A p \in Range(entites.principe_actif) :
              \A e \in Range(entites.entreprise) : upper(p) # upper(e)

\* C4: in every result, no value of principe_actif is one of the words
\* VIGNETTE, PRIX, LOT, FAB, EXP, PER.
C4_PrincipePasMotExclu ==
    Fini => \A p \in Range(entites.principe_actif) : p \notin mots_exclus

\* C5: in every result, the dosage list never holds the same token twice,
\* and its tokens hold no whitespace.
C5_DosageSansDoublon ==
    Fini => /\ \A i, j \in DOMAIN entites.dosage :
                 i # j => entites.dosage[i] # entites.dosage[j]
            /\ \A i \in DOMAIN entites.dosage :
                 \A k \in DOMAIN entites.dosage[i] :
                    entites.dosage[i][k] \notin Whitespace

\* a result whose text holds the same dosage token twice, kept once
C5_Temoin ==
    /\ Fini
    /\ Len(findall(modeles_dosage[1], texte, TRUE)) >= 2
    /\ Len(entites.dosage) = 1

\* the dosage tokens of a text with the places they start at
OccurrencesDosage(t) ==
    UNION {{<<m.start, SansEspaces(group(t, m, 1))>> :
              m \in Range(FindIterFrom(t, TRUE, modeles_dosage[k], 1))} :
           k \in DOMAIN modeles_dosage}

\* where a dosage token first appears in a text
PremiereApparition(t, d) ==
    CHOOSE p \in {o[1] : o \in {x \in OccurrencesDosage(t) : x[2] = d}} :
       \A o \in OccurrencesDosage(t) : o[2] = d => p <= o[1]

\* C6: the dosage list holds all the distinct dosage tokens of the text, in
\* the order of their first appearance in the text.
C6_DosageOrdreApparition ==
    Fini => /\ Range(entites.dosage) = {o[2] : o \in OccurrencesDosage(texte)}
            /\ \A i, j \in DOMAIN entites.dosage :
                 i < j => PremiereApparition(texte, entites.dosage[i])
                          < PremiereApparition(texte, entites.dosage[j])

\* C7: normaliser_texte is idempotent: applied to a text it returned, it
\* returns that text.
C7_NormaliserIdempotent ==
    pc # "normaliser" => normaliser_texte(texte) = texte

\* a text that normaliser_texte changed, with a whitespace run inside
C7_Temoin ==
    /\ pc # "normaliser"
    /\ texte # texte_original
    /\ \E k \in 2..(Len(texte_original) - 2) :
          /\ texte_original[k] \in Whitespace
          /\ texte_original[k + 1] \in Whitespace
          /\ ~ToutEspace(SubSeq(texte_original, 1, k))
          /\ ~ToutEspace(SubSeq(texte_original, k, Len(texte_original)))

\* the maximal runs of characters that are no whitespace, in order
RECURSIVE Mots(_, _)
Mots(s, courant) ==
    IF Len(s) = 0 THEN (IF Len(courant) > 0 THEN <<courant>> ELSE <<>>)
    ELSE IF Head(s) \in Whitespace
    THEN (IF Len(courant) > 0 THEN <<courant>> ELSE <<>>) \o Mots(Tail(s), <<>>)
    ELSE Mots(Tail(s), Append(courant, Head(s)))

\* C8: normaliser_texte returns the runs of the input that are no whitespace,
\* in order, with one space between two of them: no whitespace at either
\* end, no whitespace but a single space between two other characters, and
\* the empty string for an input that is empty or all whitespace.
C8_NormaliserUnEspace ==
    pc # "normaliser" =>
        /\ Mots(texte, <<>>) = Mots(texte_original, <<>>)
        /\ \A k \in DOMAIN texte :
              texte[k] \in Whitespace =>
                 /\ texte[k] = " "
                 /\ k > 1 /\ k < Len(texte)
                 /\ texte[k - 1] \notin Whitespace
                 /\ texte[k + 1] \notin Whitespace
        /\ ToutEspace(texte_original) => texte = <<>>

\* a text with whitespace at both ends and a line break inside
C8_Temoin ==
    /\ pc # "normaliser"
    /\ Len(texte_original) >= 5
    /\ texte_original[1] \in Whitespace
    /\ texte_original[Len(texte_original)] \in Whitespace
    /\ \E k \in 2..(Len(texte) - 1) : texte[k] = " " /\ texte_original[k + 1] = "\n"

\* the ten keys of a result
Cles ==
    {"nom_medicament", "principe_actif", "dosage", "forme_pharmaceutique", "entreprise",
     "numero_lot", "date_fabrication", "date_peremption", "prix", "numero_enregistrement"}

\* C9: for every input analyser_format_algerian goes through its steps without
\* an error (no None takes the place of a string, on which a method call
\* would raise) and the result holds the ten keys, each with a list of
\* strings.
C9_ResultatComplet ==
    /\ pc \in Etapes
    /\ DOMAIN entites = Cles
    /\ \A c \in Cles : \A k \in DOMAIN entites[c] : IsString(entites[c][k])
    /\ nom_medicament = None \/ IsString(nom_medicament)
    /\ entreprise_trouvee = None \/ IsString(entreprise_trouvee)

\* a result in which the candidate of a strategy was refused (strategy 3 of
\* the name found a word after the dosage) and the field stayed empty
C9_Temoin ==
    /\ Fini
    /\ Found(search(modele_nom_3, texte, FALSE))
    /\ entites.nom_medicament = <<>>
    /\ Len(entites.dosage) > 0

\* C10: for the empty string and for a string of whitespace only, the ten
\* fields of the result are empty and the total of predire is 0.
C10_TexteVideResultatVide ==
    (Fini /\ ToutEspace(texte_original)) => (entites = entites_vides /\ total = 0)

\* the result for a string of whitespace only
C10_Temoin ==
    /\ Fini
    /\ Len(texte_original) > 1
    /\ ToutEspace(texte_original)
    /\ total = 0

\* the labels the patterns of the lot, the dates, the price and the D.E
\* start with, as words
Etiquettes ==
    {W("LOT"), W("FAB"), W("EXP"), W("PER"), W("TR"), W("PPA"), W("PRIX"), W("DE"), W("D.E")}

\* lower-case prose: letters a to z and whitespace only (no upper-case token,
\* no digit and so no dosage), no word that is a label, and no word that
\* holds a registry name, a form word or an ingredient marker
TexteNeutre(t) ==
    /\ \A k \in DOMAIN t : t[k] \in az \cup Whitespace
    /\ \A mot \in Range(Mots(t, <<>>)) :
          /\ upper(mot) \notin Etiquettes
          /\ \A e \in entreprises_algeriennes : ~Contains(upper(mot), e)
          /\ \A f \in formes_pharmaceutiques : ~Contains(mot, f)
          /\ \A m \in mots_cles_principes : ~Contains(mot, m)

\* C11: for a text that holds none of the recognized keywords or patterns
\* (lower-case prose in which "lot", "de" or "per" occur inside longer words
\* only), the ten fields of the result are empty and the total is 0.
C11_TexteNeutreResultatVide ==
    (Fini /\ TexteNeutre(texte_original)) => (entites = entites_vides /\ total = 0)

\* the places of the iteration whose entry matches the upper-cased text
RangsCorrespondants(ordre, t) ==
    {k \in DOMAIN ordre : EntrepriseCorrespond(ordre[k], upper(t))}

\* the first of the places rangs
PremierRang(rangs) == CHOOSE k \in rangs : \A j \in rangs : k <= j

\* the loop over the registry iterated in ordre has ended as it must when
\* rangs are the places of the entries that match
PremiereOuAucune(ordre, rangs) ==
    IF rangs = {}
    THEN /\ entites.entreprise = <<>>
         /\ entreprise_trouvee = None
         /\ entreprises_examinees = Len(ordre)
    ELSE /\ entites.entreprise = <<ordre[PremierRang(rangs)]>>
         /\ entreprise_trouvee = ordre[PremierRang(rangs)]
         /\ entreprises_examinees = PremierRang(rangs)

\* C12: entreprise holds one value at most: the first entry, in the order of
\* iteration of the registry, of which one of the four patterns matches the
\* upper-cased normalized text, and the entries after it are not examined;
\* when no entry matches, the field is empty and the other extractors run.
C12_PremiereEntreprise ==
    /\ Len(entites.entreprise) <= 1
    /\ Fini =>
          PremiereOuAucune(instance.entreprises_algeriennes,
                           RangsCorrespondants(instance.entreprises_algeriennes, texte))
    /\ (Fini /\ entites.entreprise = <<>>) =>
          /\ entites.dosage = ExtraireDosage(texte)
          /\ entites.numero_lot = ExtraireLot(texte)
          /\ entites.nom_medicament = ListeNom(ResoudreNom(texte, None))

\* a result for a text that two entries of the registry match: the first of
\* them in the order of iteration is the value, the other was not examined
C12_Temoin ==
    /\ Fini
    /\ Cardinality(EntreprisesPossibles(texte)) >= 2
    /\ Len(entites.entreprise) = 1
    /\ entreprises_examinees < Len(instance.entreprises_algeriennes)

\* C13: the result is a function of the text alone: whatever the order the
\* registry and the form lexicon are iterated in, a call returns the same
\* result for the same text.
C13_ResultatFonctionDuTexte ==
    Fini => \A self \in Instances :
               entites = analyser_format_algerian(texte_original, self)

\* the name e stands in t as a whole word, case ignored: no word character
\* before it and none after it
MotEntier(e, t) ==
    \E p \in 1..(Len(t) - Len(e) + 1) :
       /\ SubSeq(upper(t), p, p + Len(e) - 1) = e
       /\ ~IsWordAt(t, p - 1)
       /\ ~IsWordAt(t, p + Len(e))

\* C14: a registry name is reported as entreprise only if it stands in the
\* text as a whole word, case ignored, never when it is only a part of a
\* longer word.
C14_EntrepriseMotEntier ==
    \A e \in Range(entites.entreprise) : MotEntier(e, texte)

\* C15: dosage is the only field with several values: each of the nine other
\* fields of a result holds one value at most.
C15_SeulDosagePlusieursValeurs ==
    Fini => \A c \in Cles \ {"dosage"} : Len(entites[c]) <= 1

\* the file cannot be read back as JSON
Corrompu(fichier) == fichier.existe /\ json_load(fichier.contenu).erreur # "aucune"

\* C16: when enregistrer_dans_fichier is called while the file is there and
\* cannot be read back as JSON, whatever the corruption, and the write goes
\* through, the call returns True and the file is then a well-formed list
\* whose only entry is the entry of this call.
C16_JournalCorrompuRemplace ==
    \A k \in DOMAIN appels_enregistrer :
       LET a == appels_enregistrer[k]
       IN (Corrompu(a.avant) /\ a.ecriture = "ok") =>
             /\ a.retour = "True"
             /\ a.apres.existe
             /\ json_load(a.apres.contenu) = [erreur |-> "aucune", valeur |-> Liste(<<a.entree>>)]

\* the calls so far on the file nom
AppelsSur(nom) == SelectSeq(appels_enregistrer, LAMBDA a : a.nom_fichier = nom)

\* C17: the log is append-only: after calls of enregistrer_dans_fichier that
\* all returned True, on a file that was absent or well-formed at the start,
\* the file is the list of the entries it held at the start, in their order
\* (a value that is no list as the first entry), then the entry of each call
\* in the order of the calls.
C17_JournalAjoutSeulement ==
    \A nom \in NomsDeFichiers :
       LET appels == AppelsSur(nom)
       IN (/\ ~Corrompu(fichiers_au_depart[nom])
           /\ Len(appels) > 0
           /\ \A k \in DOMAIN appels : appels[k].retour = "True") =>
             /\ fichiers[nom].existe
             /\ json_load(fichiers[nom].contenu) =
                   [erreur |-> "aucune",
                    valeur |-> Liste(DonneesExistantes(fichiers_au_depart[nom]).elements
                                     \o [k \in DOMAIN appels |-> appels[k].entree])]

\* a log of one entry at the start, then two calls that returned True: three
\* entries
C17_Temoin ==
    /\ json_load(fichiers_au_depart[nom_fichier_par_defaut].contenu) =
          [erreur |-> "aucune", valeur |-> Liste(<<AncienneEntree>>)]
    /\ Len(appels_enregistrer) = 2
    /\ \A k \in DOMAIN appels_enregistrer : appels_enregistrer[k].retour = "True"
    /\ Len(json_load(fichiers[nom_fichier_par_defaut].contenu).valeur.elements) = 3

\* a line of text: neither blank nor a quit command
EstLigneDeTexte(ligne) == ~EstLigneVide(ligne) /\ ~EstCommandeQuitter(ligne)

\* C18: the gathering of a submission ends at the first blank line after a
\* line of text, or as soon as a quit command is entered, whichever comes
\* first; a quit command ends principale and is never handed to predire as
\* text of the label.
C18_FinDeSaisie ==
    /\ \A k \in DOMAIN saisies :
          EstCommandeQuitter(saisies[k]) => (k = Len(saisies) /\ pc_shell = "termine")
    /\ \A k \in DOMAIN saisies :
          (EstLigneVide(saisies[k]) /\ \E j \in 1..(k - 1) : EstLigneDeTexte(saisies[j]))
             => (k = Len(saisies) /\ pc_shell # "saisie")
    /\ \A k \in DOMAIN appels_predire :
          \A j \in DOMAIN appels_predire[k].lignes :
             ~EstCommandeQuitter(appels_predire[k].lignes[j])

\* how many times predire was called for the submission s
NombreAppelsPredire(s) ==
    Cardinality({k \in DOMAIN appels_predire : appels_predire[k].soumission = s})

\* C19: predire is called once for every submission that is not empty and
\* never for an empty one, before the save prompt of the submission;
\* enregistrer_dans_fichier is called once at most for a submission, only
\* after the answer 'o' to the save prompt, with a file name that ends in
\* '.json'.
C19_UnAppelParSoumission ==
    /\ \A s \in 1..soumission :
          /\ NombreAppelsPredire(s) <= 1
          /\ s < soumission => NombreAppelsPredire(s) = 1
    /\ pc_shell \in {"predire", "invite", "nom"} =>
          /\ NombreAppelsPredire(soumission) = 1
          /\ Len(entree_utilisateur) > 0
    /\ pc_shell \in {"saisie", "termine"} => NombreAppelsPredire(soumission) = 0
    /\ \A k \in DOMAIN appels_predire : ~ToutEspace(appels_predire[k].texte)
    /\ Len(appels_enregistrer) = Len(sauvegardes)
    /\ \A k \in DOMAIN sauvegardes :
          /\ sauvegardes[k].reponse = W("o")
          /\ endswith(sauvegardes[k].nom_fichier, W(".json"))
          /\ sauvegardes[k].nom_fichier = appels_enregistrer[k].nom_fichier
          /\ NombreAppelsPredire(sauvegardes[k].soumission) = 1
          /\ \A j \in DOMAIN sauvegardes :
                j # k => sauvegardes[j].soumission # sauvegardes[k].soumission

\* a submission that was analysed and saved under a name typed without
\* '.json', and the gathering of the next one begun
C19_Temoin ==
    /\ pc_shell = "saisie"
    /\ soumission = 2
    /\ Len(appels_predire) = 1
    /\ Len(sauvegardes) = 1
    /\ sauvegardes[1].nom_fichier = W("a.json")
    /\ appels_enregistrer[1].retour = "True"

\* C20: when two calls of analyser_format_algerian run at once on one
\* classifier, on the same text or on two texts, under every interleaving of
\* their sections each call returns what it returns when it runs alone, and
\* the three sets of the classifier are as __init__ built them.
C20_AppelsSansSynchronisation ==
    /\ \A i \in Appels :
          pcs[i] = "retour" => retours[i] = analyser_format_algerian(arguments[i], instance)
    /\ Range(instance.entreprises_algeriennes) = entreprises_algeriennes
    /\ Range(instance.formes_pharmaceutiques) = formes_pharmaceutiques
    /\ instance.mots_cles_principes = mots_cles_principes

\* the first call has returned a result that is not empty while the second,
\* on another text, is in the middle of its sections
C20_Temoin ==
    /\ pcs[1] = "retour"
    /\ pcs[2] = "principe"
    /\ arguments[1] # arguments[2]
    /\ retours[1] # entites_vides
    /\ cadres[2].entites # entites_vides

(***************************************************************************)
(* The label of the first test case                                        *)
(***************************************************************************)

\* C21: for the label "LOT 77A BIOCARE 500 mg PARACETAMOL EXP 04-2026 Comprimés
\* FAB 02-2024 TR: 62.5DA", on one line or with its fields on separate lines,
\* the result holds entreprise BIOCARE, dosage 500mg, numero_lot 77A,
\* date_peremption 04-2026, date_fabrication 02-2024, prix "62.5 DA",
\* forme_pharmaceutique "comprimés", and the name PARACETAMOL that strategy 3
\* resolves.
C21_EtiquetteParacetamol ==
    (Fini /\ texte_original \in {EtiquetteParacetamol, EtiquetteParacetamolLignes}) =>
        /\ entites.entreprise = <<W("BIOCARE")>>
        /\ entites.dosage = <<W("500mg")>>
        /\ entites.numero_lot = <<W("77A")>>
        /\ entites.date_peremption = <<W("04-2026")>>
        /\ entites.date_fabrication = <<W("02-2024")>>
        /\ entites.prix = <<W("62.5 DA")>>
        /\ entites.forme_pharmaceutique = <<W("comprim") \o <<EAigu>> \o W("s")>>
        /\ nom_strategie_3(texte) = W("PARACETAMOL")
        /\ entites.nom_medicament = <<W("PARACETAMOL")>>

(***************************************************************************)
(* The cascade of the name                                                 *)
(***************************************************************************)

\* the pattern of strategy k
modele_nom(k, entreprise) ==
    CASE k = 1 -> modele_nom_1(entreprise)
      [] k = 2 -> modele_nom_2
      [] k = 3 -> modele_nom_3
      [] k = 4 -> modele_nom_4
      [] k = 5 -> modele_nom_5

\* the candidates of strategy k in the order of the text: none for strategy 1
\* with no manufacturer, the leftmost match for strategies 1 to 4, every match
\* for strategy 5
CandidatsNom(k, t, entreprise) ==
    IF k = 1 /\ ~Truthy(entreprise) THEN <<>>
    ELSE IF k = 5 THEN findall(modele_nom_5, t, FALSE)
    ELSE LET correspondance == search(modele_nom(k, entreprise), t, k = 1)
         IN IF Found(correspondance) THEN <<strip(group(t, correspondance, 1))>> ELSE <<>>

\* the exclusion check of strategy k rejects the candidate
CandidatRejete(k, nom_potentiel) ==
    CASE k = 1 -> FALSE
      [] k = 2 -> upper(nom_potentiel) \in entreprises_algeriennes
      [] k \in 3..5 -> \/ upper(nom_potentiel) \in entreprises_algeriennes
                       \/ upper(nom_potentiel) \in mots_exclus

\* the least of a set of numbers that is not empty
Moindre(nombres) == CHOOSE n \in nombres : \A autre \in nombres : n <= autre

\* the name a cascade yields when essais[k] is what strategy k yields, None for
\* a strategy that fails: the yield of the first strategy that does not fail
NomDeLaCascade(essais) ==
    LET reussies == {k \in DOMAIN essais : essais[k] # None}
    IN IF reussies = {} THEN None ELSE essais[Moindre(reussies)]

\* what strategy k yields when a strategy fails as soon as its first candidate
\* is rejected
PremierCandidatOuRien(candidats, k) ==
    IF Len(candidats) = 0 \/ CandidatRejete(k, candidats[1]) THEN None ELSE candidats[1]

\* what strategy k yields when it takes the first of its candidates that is
\* not rejected
PremierNonRejete(candidats, k) ==
    LET retenus == {j \in DOMAIN candidats : ~CandidatRejete(k, candidats[j])}
    IN IF retenus = {} THEN None ELSE candidats[Moindre(retenus)]

\* the name step has just run
NomResolu == pc = "principe"

\* C22, as stated: the name is resolved by a strict cascade; strategy 1 is
\* attempted only when a manufacturer was found, strategy k only when every
\* strategy before it failed, a strategy failing when its pattern does not
\* match or its first candidate is rejected by its exclusion check; the result
\* is the candidate of the lowest-numbered succeeding strategy, and the field
\* is empty when all five fail.
C22_CascadePremierCandidat ==
    NomResolu =>
        /\ nom_medicament =
             NomDeLaCascade([k \in 1..5 |->
                PremierCandidatOuRien(CandidatsNom(k, texte, entreprise_trouvee), k)])
        /\ entites.nom_medicament =
             IF nom_medicament = None THEN <<>> ELSE <<nom_medicament>>

\* C22, amended: the same cascade, in which strategy 5 goes through all its
\* candidates and fails only when every one of them is rejected; its result is
\* the first candidate that is not rejected.
C22_Cascade ==
    NomResolu =>
        /\ nom_medicament =
             NomDeLaCascade([k \in 1..5 |->
                PremierNonRejete(CandidatsNom(k, texte, entreprise_trouvee), k)])
        /\ entites.nom_medicament =
             IF nom_medicament = None THEN <<>> ELSE <<nom_medicament>>

\* strategies 1 to 4 failed, the first candidate of strategy 5 was rejected
\* and a later candidate of strategy 5 is the name
C22_Temoin ==
    /\ NomResolu
    /\ \A k \in 1..4 :
          PremierNonRejete(CandidatsNom(k, texte, entreprise_trouvee), k) = None
    /\ Len(CandidatsNom(5, texte, entreprise_trouvee)) >= 2
    /\ CandidatRejete(5, CandidatsNom(5, texte, entreprise_trouvee)[1])
    /\ nom_medicament \in Range(CandidatsNom(5, texte, entreprise_trouvee))
    /\ entites.nom_medicament = <<nom_medicament>>

(***************************************************************************)
(* The name at the end of the text                                         *)
(***************************************************************************)

\* an upper-case token of three letters at least
JetonMajuscule(mot) == Len(mot) >= 3 /\ \A k \in DOMAIN mot : mot[k] \in AZ

\* a word that can be part of an upper-case name of several words
PartieDeNom(mot) == \A k \in DOMAIN mot : mot[k] \in AZ \cup {".", "&"}

\* t ends with an upper-case token of three letters at least that is no
\* registry name and no excluded word; the word before it is no upper-case
\* word, so that the token is a name by itself
FinitParUnNom(t) ==
    LET mots == Mots(t, <<>>)
    IN /\ Len(mots) >= 1
       /\ JetonMajuscule(mots[Len(mots)])
       /\ NomAccepte(mots[Len(mots)])
       /\ Len(mots) >= 2 => ~PartieDeNom(mots[Len(mots) - 1])

\* the last word of t
DernierMot(t) == Mots(t, <<>>)[Len(Mots(t, <<>>))]

\* strategies 1 to 3 failed on the normalized text
Strategies123Echouent ==
    \A k \in 1..3 : ~Truthy(nom_strategie(k, texte, entreprise_trouvee))

\* C23: when strategies 1 to 3 fail and the normalized text ends with an
\* upper-case token of at least three letters that is neither a registry name
\* nor an excluded word, that token is the medication name, with or without a
\* dash before it, in preference to an earlier upper-case token that strategy
\* 5 would pick.
C23_NomEnFinDeTexte ==
    (NomResolu /\ Strategies123Echouent /\ FinitParUnNom(texte)) =>
        nom_medicament = DernierMot(texte)

(***************************************************************************)
(* The phrase between two dashes                                           *)
(***************************************************************************)

\* the active-ingredient step has just run
PrincipeResolu == pc = "dosage"

\* the mixed-case phrases between two dashes, in the order of the text
PhrasesEntreTirets(t) == findall(modele_principe, t, FALSE)

\* C24: model 1 of the active ingredient accepts a mixed-case phrase between
\* two dashes whenever it differs, case ignored, from the medication name; in
\* particular the phrase is accepted when no medication name was resolved.
C24_PhraseEntreTirets ==
    PrincipeResolu =>
        \A principe \in Range(PhrasesEntreTirets(texte)) :
            (nom_medicament = None \/ upper(principe) # upper(nom_medicament)) =>
                strip(principe) \in Range(entites.principe_actif)

(***************************************************************************)
(* The markers of active ingredients                                       *)
(***************************************************************************)

\* the markers of mots_cles_principes, those that the pattern of model 2 lists
\* first
SuiteDesMarqueurs ==
    <<W("sodique"), W("chlorhydrate"), W("sulfate"), W("phosphate"), W("base"),
      W("acide"), W("sel"), W("ester"), W("sodium"), W("potassium")>>

\* a dosage, a dash, and a phrase of lower-case words that ends with the
\* marker: the pattern of model 2 for one marker
modele_marqueur(marqueur) ==
    Cat(<<Nombre, Star(S), UniteDosage, Star(S), Set({Tiret, "-"}), Star(S),
          Grp(1, Cat(<<Plus(Set(az \cup {EAigu, EGrave, ECirc, AGrave, CCedil}
                                   \cup Whitespace)),
                       Lit(marqueur)>>)), EndS>>)

\* the phrase of t after a dosage and a dash that ends with the marker at the
\* end of t, None when t has none
PhraseAvecMarqueur(t, marqueur) ==
    group(t, search(modele_marqueur(marqueur), t, TRUE), 1)

\* C25: for every marker of mots_cles_principes (sodique, chlorhydrate,
\* sulfate, phosphate, base, acide, sel, ester, sodium, potassium): when model
\* 1 found nothing and the text has a dosage followed by a dash and a phrase
\* that ends in the marker, model 2 records the phrase as the active
\* ingredient.
C25_ChaqueMarqueur ==
    PrincipeResolu =>
        \A marqueur \in mots_cles_principes :
            (/\ principe_modele_1(texte, nom_medicament) = <<>>
             /\ PhraseAvecMarqueur(texte, marqueur) # None) =>
                entites.principe_actif = <<strip(PhraseAvecMarqueur(texte, marqueur))>>

(***************************************************************************)
(* The form and its count                                                  *)
(***************************************************************************)

\* the form step has just run
FormeResolue == pc = "lot"

\* "<count> <form word>"
CompteEtForme(compte, forme) == compte \o W(" ") \o forme

\* C26: for a form word of the lexicon with a count before it ("B/20
\* gélules", "Boîte de 30 Gélules") or after it ("Suppositoires/B10",
\* "Comprimée boîte de 20"), forme_pharmaceutique is the count, a space and
\* the form word in lower case, and the stand-alone form word is not used.
C26_FormeAvecCompte ==
    FormeResolue =>
        /\ texte_original = CompteAvantFormeB =>
             entites.forme_pharmaceutique =
               <<CompteEtForme(W("20"), W("g") \o <<EAigu>> \o W("lules"))>>
        /\ texte_original = CompteAvantFormeBoite =>
             entites.forme_pharmaceutique =
               <<CompteEtForme(W("30"), W("g") \o <<EAigu>> \o W("lules"))>>
        /\ texte_original = CompteApresFormeB =>
             entites.forme_pharmaceutique = <<CompteEtForme(W("10"), W("suppositoires"))>>
        /\ texte_original = CompteApresFormeBoite =>
             entites.forme_pharmaceutique =
               <<CompteEtForme(W("20"), W("comprim") \o <<EAigu>> \o W("e"))>>

\* the form word of a value of forme_pharmaceutique: the whole value of the
\* stand-alone scan, the part after the count of a pattern with a count
MotDeLaForme(valeur) == DernierMot(valeur)

\* C27: in every result, the form word of a value of forme_pharmaceutique is
\* an entry of formes_pharmaceutiques in lower case; a word that merely holds
\* an entry inside it is never given as a form.
C27_FormeDuLexique ==
    FormeResolue =>
        \A valeur \in Range(entites.forme_pharmaceutique) :
            MotDeLaForme(valeur) \in {lower(forme) : forme \in formes_pharmaceutiques}

(***************************************************************************)
(* A save that fails                                                       *)
(***************************************************************************)

\* the entries that can be read back from the file
EntreesStockees(fichier) ==
    IF ~fichier.existe \/ Corrompu(fichier) THEN <<>>
    ELSE DonneesExistantes(fichier).elements

\* C28: a save that fails changes nothing: when enregistrer_dans_fichier
\* cannot complete (the read of the file fails for another reason than
\* malformed JSON, or opening or writing the file fails at any point), it
\* returns False instead of raising, and the entries stored in the file before
\* the call are still stored in it afterwards.
C28_EchecSansEffet ==
    \A k \in DOMAIN appels_enregistrer :
       LET a == appels_enregistrer[k]
       IN a.retour # "True" =>
             /\ a.retour = "False"
             /\ EntreesStockees(a.apres) = EntreesStockees(a.avant)

(***************************************************************************)
(* Two saves at once                                                       *)
(***************************************************************************)

\* C29: when two calls of enregistrer_dans_fichier on the same file run at
\* once, their steps interleaved in any way, and both return True, the file
\* holds in the end the entries of both calls and all the entries it held
\* before.
C29_DeuxEnregistrements ==
    (\A i \in Appels : pcs[i] = "retour" /\ retours[i] = "True") =>
        LET stockees == Range(EntreesStockees(fichiers[nom_fichier_par_defaut]))
        IN /\ \A i \in Appels : cadres[i].entree \in stockees
           /\ Range(EntreesStockees(fichiers_au_depart[nom_fichier_par_defaut]))
                \subseteq stockees


\* ---- C30 ----
\* the standard input is at its end and principale has returned
FinPropre == pc_shell = "termine"

\* C30: once the standard input has come to its end, with no text line or
\* with some text lines gathered for the submission at hand, principale
\* eventually returns, without an exception that nothing handles (the states
\* where the model's bound on the calls of input() is exhausted are left out)
C30_FinDEntreePropre == [](fin_entree /\ lectures < MaxLectures => <>FinPropre)

====
